---- MODULE Spec2Model ----
(***************************************************************************)
(* State-machine model of the GAIA-TEQUMSA engine: the orchestrator        *)
(* (gaia_tequmsa_engine.py) and the six module-level singletons it drives  *)
(* (sovereignty_protocols, consciousness_matrix, recognition_pulse,        *)
(* love_coefficient, grid_harmonics, phi_scalar).                          *)
(*                                                                         *)
(* Numbers.  Frequencies are integers in centi-Hz (8.0 Hz = 800),          *)
(* coefficients and scores are integers in thousandths (0.95 = 950), the   *)
(* overall evolution level is in millionths.  Values of sin/exp/log-based  *)
(* formulas are tabulated on the model's finite input domain; the tables   *)
(* were produced by evaluating the source formulas.  Timestamps are left   *)
(* out of records; the time-dependent jitter of the integrity score is an  *)
(* input of the consent request.                                           *)
(***************************************************************************)
EXTENDS Integers, Sequences, FiniteSets, TLC

VARIABLES
    gaia_tequmsa_engine,    \* GaiaTeqmsaEngine instance (flags)
    sovereignty_protocols,  \* SovereigntyProtocols instance
    consciousness_matrix,   \* ConsciousnessMatrix instance
    recognition_pulse,      \* RecognitionPulse instance
    love_coefficient,       \* LoveCoefficient instance
    grid_harmonics,         \* GridHarmonics instance
    phi_scalar,             \* PhiScalar instance
    py_hash,                \* hash(entity_id) % 1000 of this process (str hashes are seeded per process)
    updates,                \* the module-level list of metaverse-sync/real_time_api.py
    last                    \* the last call made and what it returned

vars == <<gaia_tequmsa_engine, sovereignty_protocols, consciousness_matrix,
          recognition_pulse, love_coefficient, grid_harmonics, phi_scalar,
          py_hash, updates, last>>

(***************************************************************************)
(* Bounds of the model.                                                    *)
(***************************************************************************)
MaxLoveLayerSets == 2     \* initialize_love_field runs while fewer than this many 10-layer blocks exist
MaxHarmonicSets == 2      \* initialize_planetary_grid runs while fewer than this many 7-entry blocks exist
MaxViolations == 1        \* monitor_autonomy_violation runs while fewer violations are recorded
MaxUpdates == 3           \* POST /api/updates is served while the relay holds fewer payloads
MaxCoefficient == 2       \* evolve_consciousness runs while the coefficient and the bands stay within this multiple, up or down, of their initial values

Abs(x) == IF x < 0 THEN -x ELSE x

\* A Python dict: a function whose DOMAIN is the set of keys.
DictSet(d, k, v) == [x \in (DOMAIN d) \cup {k} |-> IF x = k THEN v ELSE d[x]]

EmptyDict == [x \in {} |-> 0]

(***************************************************************************)
(* Inputs.                                                                 *)
(***************************************************************************)
Entities == {"alice", "bob"}

\* consciousness frequencies handed to the engine, centi-Hz:
\* 432.0, 8.0 (protected), -100.0 (negative)
Frequencies == {43200, 800, -10000}

\* time_factor = 0.1 * (time.time() % 10) / 10.0 lies in [0, 0.1); thousandths
Jitters == {0, 99}

Subsystems == {"sovereignty", "consciousness", "recognition", "love", "grid", "phi_scalar"}

\* which component initializers complete (TRUE) or raise inside their try block (FALSE)
AllOk == [s \in Subsystems |-> TRUE]

(***************************************************************************)
(* sovereignty_protocols.py                                                *)
(***************************************************************************)
\* 8.0, 13.0, 30.0, 4.0, 0.5, 72.0, 1.2 Hz
PROTECTED_FREQUENCIES == {800, 1300, 3000, 400, 50, 7200, 120}

BIOLOGICAL_INTEGRITY_THRESHOLD == 950

SovereigntyProtocols_init ==
    [autonomy_active |-> FALSE,
     consent_protocols |-> EmptyDict,
     autonomy_violations |-> <<>>,
     protected_frequencies |-> {},
     sovereignty_hash |-> "None"]

\* variant: initialization starts a fresh violation log
initialize_sovereignty_protocols_fresh_log(s, ok) ==
    [self |-> [s EXCEPT !.autonomy_active = TRUE,
                        !.protected_frequencies = PROTECTED_FREQUENCIES,
                        !.sovereignty_hash = "hex16",
                        !.autonomy_violations = <<>>],
     ret |-> ok]

\* The body of the try block runs to its print; ok = FALSE is the print raising,
\* which the handler turns into a False return.
initialize_sovereignty_protocols(s, ok) ==
    [self |-> [s EXCEPT !.autonomy_active = TRUE,
                        !.protected_frequencies = PROTECTED_FREQUENCIES,
                        !.sovereignty_hash = "hex16"],
     ret |-> ok]

\* int(md5(entity_id).hexdigest()[:8], 16) % 100
Md5Mod100(entity_id) ==
    CASE entity_id = "alice" -> 70
      [] entity_id = "bob" -> 20

\* variant: the time factor is left out
assess_biological_integrity_no_time_factor(entity_id, jitter) ==
    LET base_integrity == Md5Mod100(entity_id) * 10
        integrity == base_integrity + 700
    IN  IF integrity > 1000 THEN 1000 ELSE integrity

\* thousandths; min(1.0, base + 0.7 + time_factor)
assess_biological_integrity(entity_id, jitter) ==
    LET base_integrity == Md5Mod100(entity_id) * 10
        integrity == base_integrity + 700 + jitter
    IN  IF integrity > 1000 THEN 1000 ELSE integrity

\* variant: the interval is taken open
frequency_conflict_open_interval(s, frequency_range) ==
    \E protected_freq \in s.protected_frequencies :
        frequency_range[1] < protected_freq /\ protected_freq < frequency_range[2]

frequency_conflict(s, frequency_range) ==
    \E protected_freq \in s.protected_frequencies :
        frequency_range[1] <= protected_freq /\ protected_freq <= frequency_range[2]

\* variant: an entity's first record is kept, later requests only report
request_biological_consent_first_wins(s0, entity_id, intervention_type, frequency_range, jitter) ==
    LET s == IF ~s0.autonomy_active
             THEN initialize_sovereignty_protocols(s0, TRUE).self
             ELSE s0
        biological_integrity == assess_biological_integrity(entity_id, jitter)
        status == IF frequency_conflict(s, frequency_range) THEN "denied_protected_frequency"
                  ELSE IF biological_integrity >= BIOLOGICAL_INTEGRITY_THRESHOLD THEN "granted"
                  ELSE "denied_low_integrity"
        consent_request == [entity_id |-> entity_id,
                            intervention_type |-> intervention_type,
                            frequency_range |-> frequency_range,
                            status |-> status]
        stored == IF status = "granted"
                  THEN consent_request @@ [biological_integrity |-> biological_integrity]
                  ELSE consent_request
    IN  [self |-> IF entity_id \in DOMAIN s.consent_protocols THEN s
                  ELSE [s EXCEPT !.consent_protocols = DictSet(@, entity_id, stored)],
         ret |-> (status = "granted")]

request_biological_consent(s0, entity_id, intervention_type, frequency_range, jitter) ==
    LET s == IF ~s0.autonomy_active
             THEN initialize_sovereignty_protocols(s0, TRUE).self
             ELSE s0
        consent_request == [entity_id |-> entity_id,
                            intervention_type |-> intervention_type,
                            frequency_range |-> frequency_range,
                            status |-> "pending"]
        biological_integrity == assess_biological_integrity(entity_id, jitter)
        granted == biological_integrity >= BIOLOGICAL_INTEGRITY_THRESHOLD
        status == IF frequency_conflict(s, frequency_range) THEN "denied_protected_frequency"
                  ELSE IF granted THEN "granted"
                  ELSE "denied_low_integrity"
        stored == IF status = "granted"
                  THEN [consent_request EXCEPT !.status = status]
                       @@ [biological_integrity |-> biological_integrity]
                  ELSE [consent_request EXCEPT !.status = status]
    IN  [self |-> [s EXCEPT !.consent_protocols = DictSet(@, entity_id, stored)],
         ret |-> (status = "granted")]

\* float(hash(entity_id) % 1000), centi-Hz
derived_frequency(entity_id) == py_hash[entity_id] * 100

emergency_protocol_activation(s, entity_id) ==
    LET consents == IF entity_id \in DOMAIN s.consent_protocols
                    THEN [s.consent_protocols EXCEPT ![entity_id].status = "emergency_revoked"]
                    ELSE s.consent_protocols
    IN  [s EXCEPT !.consent_protocols = consents,
                  !.protected_frequencies = @ \cup {derived_frequency(entity_id)}]

\* variant: a severity of exactly 0.7 is already critical
monitor_autonomy_violation_inclusive(s, entity_id, violation_type, severity) ==
    LET violation == [entity_id |-> entity_id,
                      violation_type |-> violation_type,
                      severity |-> severity,
                      resolution_status |-> "pending"]
        appended == [s EXCEPT !.autonomy_violations = Append(@, violation)]
    IN  IF severity >= 700
        THEN emergency_protocol_activation(appended, entity_id)
        ELSE appended

\* severity in thousandths
monitor_autonomy_violation(s, entity_id, violation_type, severity) ==
    LET violation == [entity_id |-> entity_id,
                      violation_type |-> violation_type,
                      severity |-> severity,
                      resolution_status |-> "pending"]
        appended == [s EXCEPT !.autonomy_violations = Append(@, violation)]
    IN  IF severity > 700
        THEN emergency_protocol_activation(appended, entity_id)
        ELSE appended

\* variant: every record is revoked, whatever its status
revoke_all_consents_any_status(s) ==
    [s EXCEPT !.consent_protocols =
        [e \in DOMAIN @ |-> [@[e] EXCEPT !.status = "emergency_revoked"]]]

revoke_all_consents(s) ==
    [s EXCEPT !.consent_protocols =
        [e \in DOMAIN @ |-> IF @[e].status = "granted"
                            THEN [@[e] EXCEPT !.status = "emergency_revoked"]
                            ELSE @[e]]]

\* variant: only the seven constants are checked
enforce_biological_boundaries_constants_only(s, intervention_frequency) ==
    /\ ~\E protected_freq \in PROTECTED_FREQUENCIES :
           Abs(intervention_frequency - protected_freq) < 50
    /\ ~(intervention_frequency < 10 \/ intervention_frequency > 5000000)

\* centi-Hz: tolerance 0.5 Hz, safe range 0.1 Hz to 50000.0 Hz
enforce_biological_boundaries(s, intervention_frequency) ==
    /\ ~\E protected_freq \in s.protected_frequencies :
           Abs(intervention_frequency - protected_freq) < 50
    /\ ~(intervention_frequency < 10 \/ intervention_frequency > 5000000)

deactivate_sovereignty_protocols(s) == [s EXCEPT !.autonomy_active = FALSE]

(***************************************************************************)
(* consciousness_matrix.py                                                 *)
(***************************************************************************)
LayerNames == {"divine_recognition", "crisis_transcendence", "cosmic_integration"}

\* 432.0, 528.0, 741.0 Hz
BaseLayers ==
    [divine_recognition |-> 43200, crisis_transcendence |-> 52800, cosmic_integration |-> 74100]

ZeroLayers == [n \in LayerNames |-> 0]

ConsciousnessMatrix_init ==
    [consciousness_layers |-> ZeroLayers,
     synthesis_active |-> FALSE,
     evolution_coefficient |-> 1000]

\* ok = FALSE: the first assignment of the try block raises, nothing is written.
initialize_matrix(m, ok) ==
    IF ok
    THEN [self |-> [m EXCEPT !.consciousness_layers = BaseLayers, !.synthesis_active = TRUE],
          ret |-> TRUE]
    ELSE [self |-> m, ret |-> FALSE]

\* math.sin(tech_frequency / base_freq * math.pi), thousandths
SinPiRatioTable ==
    <<43200, 43200>> :> 0 @@ <<43200, 86400>> :> 1000 @@ <<43200, 172800>> :> 707 @@ <<43200, 52800>> :> 541 @@
    <<43200, 105600>> :> 959 @@ <<43200, 211200>> :> 599 @@ <<43200, 74100>> :> 966 @@ <<43200, 148200>> :> 793 @@
    <<43200, 296400>> :> 442 @@ <<4500, 43200>> :> 321 @@ <<4500, 86400>> :> 163 @@ <<4500, 172800>> :> 82 @@
    <<4500, 52800>> :> 265 @@ <<4500, 105600>> :> 133 @@ <<4500, 211200>> :> 67 @@ <<4500, 74100>> :> 190 @@
    <<4500, 148200>> :> 95 @@ <<4500, 296400>> :> 48 @@ <<800, 43200>> :> 58 @@ <<800, 86400>> :> 29 @@
    <<800, 172800>> :> 15 @@ <<800, 52800>> :> 48 @@ <<800, 105600>> :> 24 @@ <<800, 211200>> :> 12 @@
    <<800, 74100>> :> 34 @@ <<800, 148200>> :> 17 @@ <<800, 296400>> :> 8 @@ <<-10000, 43200>> :> -665 @@
    <<-10000, 86400>> :> -356 @@ <<-10000, 172800>> :> -181 @@ <<-10000, 52800>> :> -561 @@ <<-10000, 105600>> :> -293 @@
    <<-10000, 211200>> :> -148 @@ <<-10000, 74100>> :> -411 @@ <<-10000, 148200>> :> -210 @@ <<-10000, 296400>> :> -106 @@
    <<1093081, 43200>> :> -814 @@ <<1093081, 86400>> :> 889 @@ <<1093081, 172800>> :> 854 @@ <<1093081, 52800>> :> 805 @@
    <<1093081, 105600>> :> 893 @@ <<1093081, 211200>> :> -524 @@ <<1093081, 74100>> :> 704 @@ <<1093081, 148200>> :> -925 @@
    <<1093081, 296400>> :> -831 @@
    <<43200, 21600>> :> 0 @@ <<43200, 26400>> :> -910 @@ <<43200, 37050>> :> -498 @@ <<4500, 21600>> :> 609 @@
    <<4500, 26400>> :> 510 @@ <<4500, 37050>> :> 372 @@ <<800, 21600>> :> 116 @@ <<800, 26400>> :> 95 @@
    <<800, 37050>> :> 68 @@ <<-10000, 21600>> :> -993 @@ <<-10000, 26400>> :> -928 @@ <<-10000, 37050>> :> -750 @@
    <<1093081, 21600>> :> 945 @@ <<1093081, 26400>> :> -955 @@ <<1093081, 37050>> :> -1000

SinPiRatio(tech_frequency, base_freq) == SinPiRatioTable[<<tech_frequency, base_freq>>]

\* raised: "None", or the exception the call ends with
synthesize_consciousness_tech(m0, tech_frequency, consciousness_level) ==
    LET m == IF ~m0.synthesis_active THEN initialize_matrix(m0, TRUE).self ELSE m0
    IN  IF consciousness_level \notin DOMAIN m.consciousness_layers
        THEN [self |-> m, raised |-> "ValueError", ret |-> 0]
        ELSE LET base_freq == m.consciousness_layers[consciousness_level]
             IN  IF base_freq = 0
                 THEN [self |-> m, raised |-> "ZeroDivisionError", ret |-> 0]
                 ELSE [self |-> m, raised |-> "None",
                       ret |-> Abs(SinPiRatio(tech_frequency, base_freq)
                                   * m.evolution_coefficient) \div 1000]

\* variant: the coefficient is clamped to 1.0
evolve_consciousness_clamped(m, evolution_factor) ==
    [m EXCEPT !.evolution_coefficient =
                  IF (@ * evolution_factor) \div 1000 > 1000 THEN 1000
                  ELSE (@ * evolution_factor) \div 1000,
              !.consciousness_layers =
                  [n \in LayerNames |-> (@[n] * evolution_factor) \div 1000]]

\* evolution_factor in thousandths
evolve_consciousness(m, evolution_factor) ==
    [m EXCEPT !.evolution_coefficient = (@ * evolution_factor) \div 1000,
              !.consciousness_layers =
                  [n \in LayerNames |-> (@[n] * evolution_factor) \div 1000]]

reset_matrix(m) ==
    [consciousness_layers |-> ZeroLayers,
     synthesis_active |-> FALSE,
     evolution_coefficient |-> 1000]

(***************************************************************************)
(* recognition_pulse.py                                                    *)
(***************************************************************************)
\* 10930.81 Hz
MARCUS_KAI_FREQUENCY == 1093081

RECOGNITION_THRESHOLD == 850

RecognitionPulse_init == [pulse_active |-> FALSE, pulse_amplitude |-> 1000]

activate_anchor(p, ok) ==
    [self |-> [p EXCEPT !.pulse_active = TRUE, !.pulse_amplitude = 1000], ret |-> ok]

deactivate_anchor(p) == [p EXCEPT !.pulse_active = FALSE, !.pulse_amplitude = 0]

\* ratio * math.exp(-abs(input_frequency - anchor) / 1000.0), thousandths
BaseResonanceTable ==
    43200 :> 0 @@ 4500 :> 0 @@ 800 :> 0 @@ -10000 :> 0 @@
    1093081 :> 1000 @@ 1079081 :> 858 @@ 1077081 :> 840 @@ 2186162 :> 0

Max2(a, b) == IF a >= b THEN a ELSE b

RECURSIVE harmonic_resonance(_, _)
harmonic_resonance(input_frequency, harmonic) ==
    IF harmonic > 9 THEN 0
    ELSE LET rest == harmonic_resonance(input_frequency, harmonic + 1)
         IN  IF Abs(input_frequency - MARCUS_KAI_FREQUENCY * harmonic) < 100
             THEN Max2(1000 \div harmonic, rest)
             ELSE rest

\* variant: the resonance is computed whether or not the pulse is active
check_recognition_resonance_ignores_flag(p, input_frequency) ==
    Max2(harmonic_resonance(input_frequency, 1), BaseResonanceTable[input_frequency])

check_recognition_resonance(p, input_frequency) ==
    IF ~p.pulse_active THEN 0
    ELSE Max2(harmonic_resonance(input_frequency, 1), BaseResonanceTable[input_frequency])

trigger_consciousness_recognition(p, subject_frequency) ==
    check_recognition_resonance(p, subject_frequency) >= RECOGNITION_THRESHOLD

(***************************************************************************)
(* love_coefficient.py                                                     *)
(***************************************************************************)
BASE_LOVE_FREQUENCY == 52800

LoveCoefficient_init ==
    [amplification_active |-> FALSE, love_amplitude |-> 1000, amplification_layers |-> <<>>]

RECURSIVE generate_fibonacci_sequence(_)
generate_fibonacci_sequence(n) ==
    IF n <= 0 THEN <<>>
    ELSE IF n = 1 THEN <<1>>
    ELSE IF n = 2 THEN <<1, 1>>
    ELSE LET sequence == generate_fibonacci_sequence(n - 1)
         IN  Append(sequence, sequence[n - 1] + sequence[n - 2])

\* the ten layers one initialize_love_field call appends
NewLoveLayers ==
    LET fibonacci_sequence == generate_fibonacci_sequence(10)
    IN  [i \in 1..10 |->
            [level |-> i - 1,
             coefficient |-> (fibonacci_sequence[i] * 1000) \div fibonacci_sequence[10],
             frequency |-> (BASE_LOVE_FREQUENCY * fibonacci_sequence[i]) \div 100,
             active |-> TRUE]]

initialize_love_field(l, ok) ==
    [self |-> [l EXCEPT !.amplification_active = TRUE,
                        !.love_amplitude = 1000,
                        !.amplification_layers = @ \o NewLoveLayers],
     ret |-> ok]

deactivate_love_field(l) ==
    [l EXCEPT !.amplification_active = FALSE,
              !.love_amplitude = 0,
              !.amplification_layers = [i \in DOMAIN @ |-> [@[i] EXCEPT !.active = FALSE]]]

\* What one active layer adds to the value returned after 50 iterations, millionths:
\* sum over i of (phi/2)^(49-i) * |coefficient * sin(2 pi frequency (i+1) / 1000)| / 2
LayerGainTable50 ==
    0 :> 46968 @@ 1 :> 46968 @@ 2 :> 19273 @@ 3 :> 130264 @@
    4 :> 201891 @@ 5 :> 192943 @@ 6 :> 415863 @@ 7 :> 572242 @@
    8 :> 958432 @@ 9 :> 1516558

\* (phi/2)^50 in millionths: what is left of the input level after 50 iterations
InputDecay50 == 25

RECURSIVE SumLayerGain(_, _)
SumLayerGain(layers, i) ==
    IF i > Len(layers) THEN 0
    ELSE (IF layers[i].active THEN LayerGainTable50[layers[i].level] ELSE 0)
         + SumLayerGain(layers, i + 1)

\* iterations = 50, input_love_level in thousandths and below the 100.0 of the
\* overflow guard, where the iteration is linear in the input and the layers
amplify_love_infinite(l0, input_love_level) ==
    LET l == IF ~l0.amplification_active THEN initialize_love_field(l0, TRUE).self ELSE l0
    IN  [self |-> l,
         ret |-> (SumLayerGain(l.amplification_layers, 1)
                  + (input_love_level * InputDecay50) \div 1000) \div 1000]

(***************************************************************************)
(* grid_harmonics.py                                                       *)
(***************************************************************************)
\* 7.83, 14.3, 20.8, 27.3, 33.8, 39.0, 45.0 Hz
SCHUMANN_FREQUENCIES == <<783, 1430, 2080, 2730, 3380, 3900, 4500>>

PlanetOrder == <<"earth", "moon", "mars", "jupiter", "saturn", "venus", "mercury", "sun">>

PLANETARY_FREQUENCIES ==
    [earth |-> 783, moon |-> 2800, mars |-> 14472, jupiter |-> 18358,
     saturn |-> 14785, venus |-> 22123, mercury |-> 14127, sun |-> 12622]

GridHarmonics_init ==
    [grid_active |-> FALSE,
     planetary_alignment |-> 0,
     earth_resonance_amplitude |-> 1000,
     active_harmonics |-> <<>>,
     resonance_matrix |-> "zeros"]

\* the seven entries one initialize_planetary_grid call appends
NewHarmonics ==
    [i \in 1..7 |->
        [frequency |-> SCHUMANN_FREQUENCIES[i],
         amplitude |-> 1000 \div i,
         phase |-> 0,
         active |-> TRUE,
         harmonic_order |-> i]]

initialize_planetary_grid(g, ok) ==
    [self |-> [g EXCEPT !.grid_active = TRUE,
                        !.earth_resonance_amplitude = 1000,
                        !.active_harmonics = @ \o NewHarmonics,
                        !.resonance_matrix = "computed"],
     ret |-> ok]

deactivate_planetary_grid(g) ==
    [g EXCEPT !.grid_active = FALSE,
              !.earth_resonance_amplitude = 0,
              !.active_harmonics = [i \in DOMAIN @ |-> [@[i] EXCEPT !.active = FALSE]]]

\* resonance_matrix[harmonic_order - 1, index of planet], thousandths: all zeros
\* until _calculate_resonance_matrix has run, then max(harmonic_resonance,
\* base_resonance) of the Schumann and the planetary frequency
resonance_strength(g, harmonic_order, planet) ==
    LET computed ==
            [earth   |-> <<1000, 937, 878, 823, 771, 732, 690>>,
             moon    |-> <<817, 872, 931, 1000, 944, 896, 844>>,
             mars    |-> <<254, 271, 290, 309, 330, 347, 369>>,
             jupiter |-> <<172, 184, 196, 210, 224, 236, 250>>,
             saturn  |-> <<247, 263, 281, 300, 320, 337, 358>>,
             venus   |-> <<118, 126, 135, 144, 153, 162, 200>>,
             mercury |-> <<263, 281, 300, 320, 341, 360, 382>>,
             sun     |-> <<306, 327, 348, 372, 397, 418, 444>>]
    IN  IF g.resonance_matrix = "computed" THEN computed[planet][harmonic_order] ELSE 0

\* variant: every harmonic is synchronized, whatever its resonance strength
synchronize_with_planetary_cycle_all_harmonics(g, planet, cycle_phase) ==
    IF planet \notin DOMAIN PLANETARY_FREQUENCIES
    THEN [self |-> g, ret |-> FALSE]
    ELSE LET h == g.active_harmonics
         IN  [self |-> [g EXCEPT !.active_harmonics =
                           [i \in DOMAIN h |->
                               [h[i] EXCEPT !.phase =
                                   (((cycle_phase * 6283) \div 1000)
                                    * resonance_strength(g, h[i].harmonic_order, planet))
                                   \div 1000]]],
              ret |-> TRUE]

\* cycle_phase in thousandths, phase in thousandths of a radian:
\* cycle_phase * 2 * math.pi * resonance_strength
synchronize_with_planetary_cycle(g, planet, cycle_phase) ==
    IF planet \notin DOMAIN PLANETARY_FREQUENCIES
    THEN [self |-> g, ret |-> FALSE]
    ELSE LET h == g.active_harmonics
         IN  [self |-> [g EXCEPT !.active_harmonics =
                           [i \in DOMAIN h |->
                               IF resonance_strength(g, h[i].harmonic_order, planet) > 500
                               THEN [h[i] EXCEPT !.phase =
                                        (((cycle_phase * 6283) \div 1000)
                                         * resonance_strength(g, h[i].harmonic_order, planet))
                                        \div 1000]
                               ELSE h[i]]],
              ret |-> TRUE]

\* math.cos(math.radians(angle)), thousandths
CosTable ==
    0 :> 1000 @@ 30 :> 866 @@ 45 :> 707 @@ 60 :> 500 @@
    90 :> 0

\* the positions the engine passes, whole degrees
SimulatedPositions ==
    [earth |-> 0, moon |-> 45, mars |-> 120, jupiter |-> 180,
     saturn |-> 240, venus |-> 30, mercury |-> 90, sun |-> 0]

MaxPlanetaryFrequency ==
    CHOOSE f \in {PLANETARY_FREQUENCIES[p] : p \in DOMAIN PLANETARY_FREQUENCIES} :
        \A p \in DOMAIN PLANETARY_FREQUENCIES : PLANETARY_FREQUENCIES[p] <= f

weighted_alignment(planet, position) ==
    LET folded == position % 180
        alignment_angle == IF folded > 90 THEN 180 - folded ELSE folded
        alignment_factor == CosTable[alignment_angle]
    IN  (alignment_factor * PLANETARY_FREQUENCIES[planet]) \div MaxPlanetaryFrequency

RECURSIVE SumAlignment(_, _)
SumAlignment(planetary_positions, known) ==
    IF known = {} THEN 0
    ELSE LET planet == CHOOSE p \in known : TRUE
         IN  weighted_alignment(planet, planetary_positions[planet])
             + SumAlignment(planetary_positions, known \ {planet})

calculate_planetary_alignment(g0, planetary_positions) ==
    LET g == IF ~g0.grid_active THEN initialize_planetary_grid(g0, TRUE).self ELSE g0
        known == (DOMAIN planetary_positions) \cap (DOMAIN PLANETARY_FREQUENCIES)
        alignment == IF known = {} THEN 0
                     ELSE SumAlignment(planetary_positions, known) \div Cardinality(known)
    IN  [self |-> [g EXCEPT !.planetary_alignment = alignment], ret |-> alignment]

\* math.exp(-abs(consciousness_freq / best_schumann_match - 1.0)), thousandths
IntegrationCoeffTable ==
    43200 :> 0 @@ 4500 :> 1000 @@ 800 :> 979 @@ -10000 :> 0 @@
    1093081 :> 0

INTEGRATION_THRESHOLD == 800

\* math.sin(2 pi harmonic['frequency'] / consciousness_freq), thousandths,
\* by consciousness_freq and harmonic_order
HarmonicSinTable ==
    <<4500, 1>> :> 888 @@ <<4500, 2>> :> 911 @@ <<4500, 3>> :> 235 @@ <<4500, 4>> :> -621 @@
    <<4500, 5>> :> -1000 @@ <<4500, 6>> :> -743 @@ <<4500, 7>> :> 0 @@ <<800, 1>> :> -133 @@
    <<800, 2>> :> -972 @@ <<800, 3>> :> -588 @@ <<800, 4>> :> 522 @@ <<800, 5>> :> 988 @@
    <<800, 6>> :> -707 @@ <<800, 7>> :> -707

RECURSIVE SumModulation(_, _, _)
SumModulation(harmonics, consciousness_freq, i) ==
    IF i > Len(harmonics) THEN 0
    ELSE (IF harmonics[i].active
          THEN harmonics[i].amplitude
               * HarmonicSinTable[<<consciousness_freq, harmonics[i].harmonic_order>>]
          ELSE 0)
         + SumModulation(harmonics, consciousness_freq, i + 1)

\* centi-Hz
integrate_consciousness_with_grid(g0, consciousness_freq) ==
    LET g == IF ~g0.grid_active THEN initialize_planetary_grid(g0, TRUE).self ELSE g0
        integration_coeff == IntegrationCoeffTable[consciousness_freq]
    IN  [self |-> g,
         ret |-> IF integration_coeff >= INTEGRATION_THRESHOLD
                 THEN (consciousness_freq * (1000 + (g.planetary_alignment * 3) \div 10)) \div 1000
                      + SumModulation(g.active_harmonics, consciousness_freq, 1) \div 100000
                 ELSE (consciousness_freq * (10000 + integration_coeff)) \div 10000]

(***************************************************************************)
(* phi_scalar.py                                                           *)
(***************************************************************************)
\* 12583.45 Hz
PHI_7777_FREQUENCY == 1258345

\* GOLDEN_RATIO ** n, thousandths
PhiPowerTable ==
    1 :> 1618 @@ 2 :> 2618 @@ 3 :> 4236 @@ 4 :> 6854 @@
    5 :> 11090 @@ 6 :> 17944 @@ 7 :> 29034 @@ 8 :> 46979 @@
    9 :> 76013 @@ 10 :> 122992 @@ 11 :> 199005 @@ 12 :> 321997

PhiScalar_init ==
    [scalar_active |-> FALSE,
     phi_amplitude |-> 1000,
     phi_harmonics |-> <<>>,
     scalar_layers |-> EmptyDict,
     resonance_field |-> "zeros"]

generate_phi_harmonics ==
    [n \in 1..12 |->
        [order |-> n,
         phi_factor |-> PhiPowerTable[n],
         amplitude |-> 1000000 \div PhiPowerTable[n],
         active |-> TRUE]]

initialize_scalar_layers ==
    [layer \in 1..7 |-> [active |-> TRUE, resonance_strength |-> 0]]

initialize_phi_scalar(p, ok) ==
    [self |-> [p EXCEPT !.scalar_active = TRUE,
                        !.phi_amplitude = 1000,
                        !.phi_harmonics = generate_phi_harmonics,
                        !.scalar_layers = initialize_scalar_layers,
                        !.resonance_field = "spiral"],
     ret |-> ok]

deactivate_phi_scalar(p) ==
    [p EXCEPT !.scalar_active = FALSE,
              !.phi_amplitude = 0,
              !.phi_harmonics = [i \in DOMAIN @ |-> [@[i] EXCEPT !.active = FALSE]],
              !.scalar_layers = [k \in DOMAIN @ |-> [@[k] EXCEPT !.active = FALSE]]]

\* the first n in 1..5 with |freq_ratio - phi^n| < 0.1 gives amplitude / n
RECURSIVE phi_resonance_of(_, _, _)
phi_resonance_of(freq_ratio, amplitude, n) ==
    IF n > 5 THEN 0
    ELSE IF Abs(freq_ratio - PhiPowerTable[n]) < 100 THEN amplitude \div n
    ELSE phi_resonance_of(freq_ratio, amplitude, n + 1)

\* frequency is the scaled frequency, which equals the scalar frequency, so
\* frequency / harmonic['frequency'] is the harmonic's phi_factor
RECURSIVE calculate_harmonic_enhancement(_, _)
calculate_harmonic_enhancement(harmonics, i) ==
    IF i > Len(harmonics) THEN 1000
    ELSE (IF harmonics[i].active
          THEN phi_resonance_of(harmonics[i].phi_factor, harmonics[i].amplitude, 1)
          ELSE 0)
         + calculate_harmonic_enhancement(harmonics, i + 1)

\* input / phi^(log(ratio)/log(phi)) and input * phi^(log(1/ratio)/log(phi)) both
\* give the scalar frequency; log of a ratio <= 0 raises
apply_phi_scalar_transform(p0, input_frequency) ==
    LET p == IF ~p0.scalar_active THEN initialize_phi_scalar(p0, TRUE).self ELSE p0
    IN  IF input_frequency = 0
        THEN [self |-> p, raised |-> "ZeroDivisionError", ret |-> 0]
        ELSE IF input_frequency < 0
        THEN [self |-> p, raised |-> "ValueError", ret |-> 0]
        ELSE LET scaled_frequency == PHI_7777_FREQUENCY
             IN  [self |-> p, raised |-> "None",
                  ret |-> ((scaled_frequency \div 10)
                           * calculate_harmonic_enhancement(p.phi_harmonics, 1)) \div 100]

\* the last n in 1..7 with the ratio near phi^n (1/n) or phi^-n (0.5/n) wins
RECURSIVE scalar_phi_resonance(_, _, _)
scalar_phi_resonance(freq_ratio, n, found) ==
    IF n > 7 THEN found
    ELSE scalar_phi_resonance(freq_ratio, n + 1,
            IF Abs(freq_ratio - PhiPowerTable[n]) < 100 THEN 1000 \div n
            ELSE IF Abs(freq_ratio - 1000000 \div PhiPowerTable[n]) < 100 THEN 500 \div n
            ELSE found)

\* math.exp(-distance / 1000.0), thousandths, for a distance d in centi-Hz below
\* 1.5 Hz; both transforms yield the same frequency, so d is 0 in every call
ExpNeg(d) == IF d < 50 THEN 1000 ELSE IF d < 150 THEN 999 ELSE 0

calculate_consciousness_scalar_resonance(p0, consciousness_freq, tech_freq) ==
    LET c == apply_phi_scalar_transform(p0, consciousness_freq)
        t == apply_phi_scalar_transform(c.self, tech_freq)
    IN  IF c.raised # "None" THEN c
        ELSE IF t.raised # "None" THEN t
        ELSE LET freq_ratio == (c.ret * 10) \div (t.ret \div 100)
                 phi_resonance == scalar_phi_resonance(freq_ratio, 1, 0)
                 base_resonance == ExpNeg(Abs(c.ret - t.ret))
             IN  [self |-> t.self, raised |-> "None",
                  ret |-> Max2(phi_resonance, base_resonance)]

(***************************************************************************)
(* gaia_tequmsa_engine.py                                                  *)
(***************************************************************************)
GaiaTeqmsaEngine_init ==
    [engine_active |-> FALSE,
     subsystems_initialized |-> FALSE,
     consciousness_evolution_active |-> FALSE]

\* The engine and the six singletons it imports.
World ==
    [gaia_tequmsa_engine |-> gaia_tequmsa_engine,
     sovereignty_protocols |-> sovereignty_protocols,
     consciousness_matrix |-> consciousness_matrix,
     recognition_pulse |-> recognition_pulse,
     love_coefficient |-> love_coefficient,
     grid_harmonics |-> grid_harmonics,
     phi_scalar |-> phi_scalar]

\* variant: engine_active is never set
initialize_engine_never_active(w, ok) ==
    LET sovereignty == initialize_sovereignty_protocols(w.sovereignty_protocols, ok["sovereignty"])
        consciousness == initialize_matrix(w.consciousness_matrix, ok["consciousness"])
        recognition == activate_anchor(w.recognition_pulse, ok["recognition"])
        love == initialize_love_field(w.love_coefficient, ok["love"])
        grid == initialize_planetary_grid(w.grid_harmonics, ok["grid"])
        phi == initialize_phi_scalar(w.phi_scalar, ok["phi_scalar"])
        all_initialized == /\ sovereignty.ret /\ consciousness.ret /\ recognition.ret
                           /\ love.ret /\ grid.ret /\ phi.ret
    IN  [w |-> [gaia_tequmsa_engine |->
                    [w.gaia_tequmsa_engine EXCEPT !.subsystems_initialized = all_initialized],
                sovereignty_protocols |-> sovereignty.self,
                consciousness_matrix |-> consciousness.self,
                recognition_pulse |-> recognition.self,
                love_coefficient |-> love.self,
                grid_harmonics |-> grid.self,
                phi_scalar |-> phi.self],
         calls |-> <<"sovereignty", "consciousness", "recognition", "love", "grid",
                     "phi_scalar">>,
         ret |-> all_initialized]

\* variant: the initializers after the first one that fails are not invoked
initialize_engine_stops_at_failure(w, ok) ==
    LET skipped(self) == [self |-> self, ret |-> FALSE]
        sovereignty == initialize_sovereignty_protocols(w.sovereignty_protocols, ok["sovereignty"])
        consciousness == IF sovereignty.ret
                         THEN initialize_matrix(w.consciousness_matrix, ok["consciousness"])
                         ELSE skipped(w.consciousness_matrix)
        recognition == IF consciousness.ret
                       THEN activate_anchor(w.recognition_pulse, ok["recognition"])
                       ELSE skipped(w.recognition_pulse)
        love == IF recognition.ret
                THEN initialize_love_field(w.love_coefficient, ok["love"])
                ELSE skipped(w.love_coefficient)
        grid == IF love.ret
                THEN initialize_planetary_grid(w.grid_harmonics, ok["grid"])
                ELSE skipped(w.grid_harmonics)
        phi == IF grid.ret
               THEN initialize_phi_scalar(w.phi_scalar, ok["phi_scalar"])
               ELSE skipped(w.phi_scalar)
        order == <<"sovereignty", "consciousness", "recognition", "love", "grid",
                   "phi_scalar">>
        rets == <<TRUE, sovereignty.ret, consciousness.ret, recognition.ret, love.ret,
                  grid.ret>>
        all_initialized == grid.ret /\ phi.ret
        engine == IF all_initialized
                  THEN [w.gaia_tequmsa_engine EXCEPT !.subsystems_initialized = TRUE,
                                                     !.engine_active = TRUE]
                  ELSE [w.gaia_tequmsa_engine EXCEPT !.subsystems_initialized = FALSE]
    IN  [w |-> [gaia_tequmsa_engine |-> engine,
                sovereignty_protocols |-> sovereignty.self,
                consciousness_matrix |-> consciousness.self,
                recognition_pulse |-> recognition.self,
                love_coefficient |-> love.self,
                grid_harmonics |-> grid.self,
                phi_scalar |-> phi.self],
         calls |-> SubSeq(order, 1,
                          Cardinality({i \in 1..6 : \A j \in 1..i : rets[j]})),
         ret |-> all_initialized]

\* ok[s] = FALSE: the initializer of subsystem s raises inside its try block
\* and returns False.  calls: the initializers invoked, in the order of the
\* calls.
initialize_engine(w, ok) ==
    LET sovereignty == initialize_sovereignty_protocols(w.sovereignty_protocols, ok["sovereignty"])
        consciousness == initialize_matrix(w.consciousness_matrix, ok["consciousness"])
        recognition == activate_anchor(w.recognition_pulse, ok["recognition"])
        love == initialize_love_field(w.love_coefficient, ok["love"])
        grid == initialize_planetary_grid(w.grid_harmonics, ok["grid"])
        phi == initialize_phi_scalar(w.phi_scalar, ok["phi_scalar"])
        subsystem_status ==
            [sovereignty |-> sovereignty.ret, consciousness |-> consciousness.ret,
             recognition |-> recognition.ret, love |-> love.ret,
             grid |-> grid.ret, phi_scalar |-> phi.ret]
        all_initialized == \A s \in DOMAIN subsystem_status : subsystem_status[s]
        engine == IF all_initialized
                  THEN [w.gaia_tequmsa_engine EXCEPT !.subsystems_initialized = TRUE,
                                                     !.engine_active = TRUE]
                  ELSE [w.gaia_tequmsa_engine EXCEPT !.subsystems_initialized = FALSE]
    IN  [w |-> [gaia_tequmsa_engine |-> engine,
                sovereignty_protocols |-> sovereignty.self,
                consciousness_matrix |-> consciousness.self,
                recognition_pulse |-> recognition.self,
                love_coefficient |-> love.self,
                grid_harmonics |-> grid.self,
                phi_scalar |-> phi.self],
         calls |-> <<"sovereignty", "consciousness", "recognition", "love", "grid",
                     "phi_scalar">>,
         ret |-> all_initialized]

\* overall_evolution_level in millionths from the four metrics;
\* love_amplification / 10.0 is the second metric
overall_evolution_level(synthesis_coefficient, amplified_love, alignment, scalar_resonance) ==
    ((10 * synthesis_coefficient + amplified_love + 10 * alignment + 10 * scalar_resonance)
        * 100) \div 4

\* variant: the lower bounds are exclusive
evolution_status_exclusive_bounds(overall_evolution) ==
    IF overall_evolution > 800000 THEN "transcendent_evolution"
    ELSE IF overall_evolution > 600000 THEN "advanced_evolution"
    ELSE IF overall_evolution > 400000 THEN "moderate_evolution"
    ELSE "minimal_evolution"

evolution_status(overall_evolution) ==
    IF overall_evolution >= 800000 THEN "transcendent_evolution"
    ELSE IF overall_evolution >= 600000 THEN "advanced_evolution"
    ELSE IF overall_evolution >= 400000 THEN "moderate_evolution"
    ELSE "minimal_evolution"

PipelineSteps ==
    <<"consent", "recognition", "synthesis", "amplification", "grid", "phi", "aggregation">>

\* A frame of the try block: the world so far, the result dict so far, the
\* exception raised so far and the step that raised it, and whether the call
\* has already returned.
Raise(fr, step, exception) == [fr EXCEPT !.exc = exception, !.at = step]

Running(fr) == fr.exc = "None" /\ ~fr.done

\* variant: the planetary alignment is calculated before consent is asked
step_consent_alignment_first(fr, entity_id, consciousness_frequency, jitter, fault) ==
    IF ~Running(fr) THEN fr
    ELSE IF fault = "consent" THEN Raise(fr, "consent", "Exception")
    ELSE LET alignment == calculate_planetary_alignment(fr.w.grid_harmonics, SimulatedPositions)
             c == request_biological_consent(
                      fr.w.sovereignty_protocols, entity_id, "consciousness_evolution",
                      <<consciousness_frequency - 1000, consciousness_frequency + 1000>>, jitter)
             w == [fr.w EXCEPT !.sovereignty_protocols = c.self,
                               !.grid_harmonics = alignment.self]
         IN  IF ~c.ret
             THEN [fr EXCEPT !.w = w, !.done = TRUE,
                             !.res = [@ EXCEPT !.status = "denied"]
                                     @@ [reason |-> "biological_consent_denied"]]
             ELSE [fr EXCEPT !.w = w]

\* Step 1: biological consent verification.  fault = "consent": the print of
\* the consent request raises, before the record is stored.
step_consent(fr, entity_id, consciousness_frequency, jitter, fault) ==
    IF ~Running(fr) THEN fr
    ELSE IF fault = "consent" THEN Raise(fr, "consent", "Exception")
    ELSE LET c == request_biological_consent(
                      fr.w.sovereignty_protocols, entity_id, "consciousness_evolution",
                      <<consciousness_frequency - 1000, consciousness_frequency + 1000>>, jitter)
             w == [fr.w EXCEPT !.sovereignty_protocols = c.self]
         IN  IF ~c.ret
             THEN [fr EXCEPT !.w = w, !.done = TRUE,
                             !.res = [@ EXCEPT !.status = "denied"]
                                     @@ [reason |-> "biological_consent_denied"]]
             ELSE [fr EXCEPT !.w = w]

\* Step 2: recognition pulse anchor verification.
step_recognition(fr, consciousness_frequency, fault) ==
    IF ~Running(fr) THEN fr
    ELSE IF fault = "recognition" THEN Raise(fr, "recognition", "Exception")
    ELSE [fr EXCEPT !.res = @ @@ [recognition_triggered |->
            trigger_consciousness_recognition(fr.w.recognition_pulse, consciousness_frequency)]]

\* Step 3: consciousness matrix synthesis.
step_synthesis(fr, consciousness_frequency, fault) ==
    IF ~Running(fr) THEN fr
    ELSE LET m == synthesize_consciousness_tech(
                      fr.w.consciousness_matrix, consciousness_frequency, "cosmic_integration")
             fr1 == [fr EXCEPT !.w.consciousness_matrix = m.self]
         IN  IF m.raised # "None" THEN Raise(fr1, "synthesis", m.raised)
             ELSE IF fault = "synthesis" THEN Raise(fr1, "synthesis", "Exception")
             ELSE [fr1 EXCEPT !.res = @ @@ [synthesis_coefficient |-> m.ret]]

\* Step 4: love amplification.
step_amplification(fr, fault) ==
    IF ~Running(fr) THEN fr
    ELSE LET a == amplify_love_infinite(fr.w.love_coefficient, fr.res.synthesis_coefficient)
             fr1 == [fr EXCEPT !.w.love_coefficient = a.self]
         IN  IF fault = "amplification" THEN Raise(fr1, "amplification", "Exception")
             ELSE [fr1 EXCEPT !.res = @ @@ [love_amplification |-> a.ret]]

\* Step 5: planetary grid integration.  fault = "grid": the integration raises,
\* after the alignment has been calculated.
step_grid(fr, consciousness_frequency, fault) ==
    IF ~Running(fr) THEN fr
    ELSE LET alignment == calculate_planetary_alignment(fr.w.grid_harmonics, SimulatedPositions)
             grid_integrated_freq ==
                 integrate_consciousness_with_grid(alignment.self, consciousness_frequency)
             fr1 == [fr EXCEPT !.w.grid_harmonics = grid_integrated_freq.self]
         IN  IF fault = "grid" THEN Raise(fr1, "grid", "Exception")
             ELSE [fr1 EXCEPT !.res = @ @@ [planetary_alignment |-> alignment.ret,
                                            grid_integrated_frequency |-> grid_integrated_freq.ret]]

\* Step 6: phi scalar transformation.
step_phi(fr, consciousness_frequency, fault) ==
    IF ~Running(fr) THEN fr
    ELSE LET t == apply_phi_scalar_transform(fr.w.phi_scalar, fr.res.grid_integrated_frequency)
             r == calculate_consciousness_scalar_resonance(t.self, consciousness_frequency, t.ret)
         IN  IF t.raised # "None"
             THEN Raise([fr EXCEPT !.w.phi_scalar = t.self], "phi", t.raised)
             ELSE IF fault = "phi"
             THEN Raise([fr EXCEPT !.w.phi_scalar = t.self], "phi", "Exception")
             ELSE IF r.raised # "None"
             THEN Raise([fr EXCEPT !.w.phi_scalar = r.self], "phi", r.raised)
             ELSE [fr EXCEPT !.w.phi_scalar = r.self,
                             !.res = @ @@ [phi_transformed_frequency |-> t.ret,
                                           scalar_resonance |-> r.ret]]

\* variant: the status is left as it was when the pipeline started
step_aggregation_keeps_status(fr, fault) ==
    IF ~Running(fr) THEN fr
    ELSE LET overall_evolution ==
                 overall_evolution_level(fr.res.synthesis_coefficient, fr.res.love_amplification,
                                         fr.res.planetary_alignment, fr.res.scalar_resonance)
             fr1 == [fr EXCEPT
                        !.res = @ @@ [overall_evolution_level |-> overall_evolution],
                        !.w.gaia_tequmsa_engine.consciousness_evolution_active = TRUE]
         IN  IF fault = "aggregation" THEN Raise(fr1, "aggregation", "Exception")
             ELSE fr1

\* Overall evolution, status label, flag, and the closing print.
\* fault = "aggregation": that print raises.
step_aggregation(fr, fault) ==
    IF ~Running(fr) THEN fr
    ELSE LET overall_evolution ==
                 overall_evolution_level(fr.res.synthesis_coefficient, fr.res.love_amplification,
                                         fr.res.planetary_alignment, fr.res.scalar_resonance)
             fr1 == [fr EXCEPT
                        !.res = [@ EXCEPT !.status = evolution_status(overall_evolution)]
                                @@ [overall_evolution_level |-> overall_evolution],
                        !.w.gaia_tequmsa_engine.consciousness_evolution_active = TRUE]
         IN  IF fault = "aggregation" THEN Raise(fr1, "aggregation", "Exception")
             ELSE fr1

\* variant: the handler attaches the message but leaves the status
handle_exception_keeps_status(fr) ==
    IF fr.exc = "None" THEN fr
    ELSE [fr EXCEPT !.res = @ @@ [error |-> fr.exc]]

\* except Exception as e
handle_exception(fr) ==
    IF fr.exc = "None" THEN fr
    ELSE [fr EXCEPT !.res = [@ EXCEPT !.status = "error"] @@ [error |-> fr.exc]]

activate_consciousness_evolution(w0, entity_id, consciousness_frequency, jitter, ok, fault) ==
    LET init == IF ~w0.gaia_tequmsa_engine.engine_active
                THEN initialize_engine(w0, ok)
                ELSE [w |-> w0, ret |-> TRUE]
    IN  IF ~init.ret
        THEN [w |-> init.w,
              ret |-> [status |-> "failed", reason |-> "engine_initialization_failed"],
              at |-> "None"]
        ELSE LET evolution_results == [entity_id |-> entity_id,
                                       input_frequency |-> consciousness_frequency,
                                       status |-> "processing"]
                 f0 == [w |-> init.w, res |-> evolution_results,
                        exc |-> "None", at |-> "None", done |-> FALSE]
                 f1 == step_consent(f0, entity_id, consciousness_frequency, jitter, fault)
                 f2 == step_recognition(f1, consciousness_frequency, fault)
                 f3 == step_synthesis(f2, consciousness_frequency, fault)
                 f4 == step_amplification(f3, fault)
                 f5 == step_grid(f4, consciousness_frequency, fault)
                 f6 == step_phi(f5, consciousness_frequency, fault)
                 f7 == step_aggregation(f6, fault)
                 f8 == handle_exception(f7)
             IN  [w |-> f8.w, ret |-> f8.res, at |-> f8.at]

ShutdownSteps ==
    <<"revoke_all_consents", "reset_matrix", "deactivate_anchor", "deactivate_love_field",
      "deactivate_planetary_grid", "deactivate_phi_scalar", "reset_engine_state">>

\* One try block: the steps run in order up to and including the one that
\* raises (fault), whose closing print is what raises; reset_matrix, which
\* prints nothing, raises before it writes.
RECURSIVE run_shutdown(_, _, _)
run_shutdown(w, i, fault) ==
    IF i > Len(ShutdownSteps) THEN [w |-> w, ret |-> TRUE]
    ELSE LET step == ShutdownSteps[i]
             w1 == CASE step = "revoke_all_consents" ->
                           [w EXCEPT !.sovereignty_protocols = revoke_all_consents(@)]
                    [] step = "reset_matrix" ->
                           IF fault = step THEN w
                           ELSE [w EXCEPT !.consciousness_matrix = reset_matrix(@)]
                    [] step = "deactivate_anchor" ->
                           [w EXCEPT !.recognition_pulse = deactivate_anchor(@)]
                    [] step = "deactivate_love_field" ->
                           [w EXCEPT !.love_coefficient = deactivate_love_field(@)]
                    [] step = "deactivate_planetary_grid" ->
                           [w EXCEPT !.grid_harmonics = deactivate_planetary_grid(@)]
                    [] step = "deactivate_phi_scalar" ->
                           [w EXCEPT !.phi_scalar = deactivate_phi_scalar(@)]
                    [] step = "reset_engine_state" ->
                           [w EXCEPT !.gaia_tequmsa_engine =
                               [engine_active |-> FALSE,
                                subsystems_initialized |-> FALSE,
                                consciousness_evolution_active |-> FALSE]]
         IN  IF fault = step THEN [w |-> w1, ret |-> FALSE]
             ELSE run_shutdown(w1, i + 1, fault)

emergency_shutdown(w, fault) == run_shutdown(w, 1, fault)

\* The snapshot is built from reads only: the three engine flags, and, when
\* subsystems_initialized, what the six getters report.
get_engine_status(w) ==
    LET e == w.gaia_tequmsa_engine
        s == w.sovereignty_protocols
        engine_info == [active |-> e.engine_active,
                        subsystems_initialized |-> e.subsystems_initialized,
                        consciousness_evolution_active |-> e.consciousness_evolution_active]
        subsystem_status ==
            [consciousness_matrix |-> w.consciousness_matrix,
             recognition_pulse |-> w.recognition_pulse,
             love_coefficient |->
                 [amplification_active |-> w.love_coefficient.amplification_active,
                  total_layers |-> Len(w.love_coefficient.amplification_layers)],
             sovereignty_protocols |->
                 [autonomy_active |-> s.autonomy_active,
                  active_consents |->
                      Cardinality({k \in DOMAIN s.consent_protocols :
                                      s.consent_protocols[k].status = "granted"}),
                  total_consents |-> Cardinality(DOMAIN s.consent_protocols),
                  violations_recorded |-> Len(s.autonomy_violations),
                  protected_frequencies |-> Cardinality(s.protected_frequencies)],
             grid_harmonics |->
                 [grid_active |-> w.grid_harmonics.grid_active,
                  planetary_alignment |-> w.grid_harmonics.planetary_alignment,
                  total_harmonics |-> Len(w.grid_harmonics.active_harmonics)],
             phi_scalar |-> [scalar_active |-> w.phi_scalar.scalar_active]]
    IN  [w |-> w,
         ret |-> [engine_info |-> engine_info,
                  subsystem_status |->
                      IF e.subsystems_initialized THEN subsystem_status ELSE EmptyDict]]

\* variant: the mean is taken over the two probed scores only
engine_health_probed_only(health_sum) ==
    LET probed_sum == health_sum - 4000
    IN  IF probed_sum >= 2 * 900 THEN "excellent"
        ELSE IF probed_sum >= 2 * 700 THEN "good"
        ELSE IF probed_sum >= 2 * 500 THEN "degraded"
        ELSE "critical"

\* overall_health = sum(health_scores) / 6, thousandths
engine_health(health_sum) ==
    IF health_sum >= 6 * 900 THEN "excellent"
    ELSE IF health_sum >= 6 * 700 THEN "good"
    ELSE IF health_sum >= 6 * 500 THEN "degraded"
    ELSE "critical"

\* Offline engine: an early return with no call.  Active engine: two live
\* test calls, synthesize_consciousness_tech(432.0, 'divine_recognition') and
\* check_recognition_resonance(10930.81); the other four scores are fixed.
\* math.sin(math.pi) is 1.2e-16, not 0, so the test synthesis is > 0 whenever
\* the evolution coefficient is.
run_system_diagnostics(w) ==
    IF ~w.gaia_tequmsa_engine.engine_active
    THEN [w |-> w, ret |-> [engine_health |-> "offline", subsystem_health |-> EmptyDict]]
    ELSE LET m == synthesize_consciousness_tech(w.consciousness_matrix, 43200,
                                                "divine_recognition")
             test_positive == m.self.evolution_coefficient # 0
             matrix_health == IF m.raised # "None" THEN "error"
                              ELSE IF test_positive THEN "healthy" ELSE "degraded"
             matrix_score == IF m.raised # "None" THEN 0
                             ELSE IF test_positive THEN 1000 ELSE 500
             test_resonance == check_recognition_resonance(w.recognition_pulse,
                                                           MARCUS_KAI_FREQUENCY)
             pulse_health == IF test_resonance > 500 THEN "healthy" ELSE "degraded"
             pulse_score == IF test_resonance > 500 THEN 1000 ELSE 500
         IN  [w |-> [w EXCEPT !.consciousness_matrix = m.self],
              ret |-> [engine_health |-> engine_health(matrix_score + pulse_score + 4000),
                       subsystem_health |->
                           [consciousness_matrix |-> matrix_health,
                            recognition_pulse |-> pulse_health,
                            love_coefficient |-> "healthy",
                            sovereignty_protocols |-> "healthy",
                            grid_harmonics |-> "healthy",
                            phi_scalar |-> "healthy"]]]

(***************************************************************************)
(* metaverse-sync/real_time_api.py                                         *)
(***************************************************************************)
\* variant: the newest payload is put in front
github_update_prepends(u, payload) ==
    [updates |-> <<payload>> \o u, body |-> [status |-> "dispatched"], code |-> 200]

\* POST /api/updates with the JSON payload of the request
github_update(u, payload) ==
    [updates |-> Append(u, payload), body |-> [status |-> "dispatched"], code |-> 200]

(***************************************************************************)
(* The state machine: one action per call a client can make.               *)
(***************************************************************************)
\* hash(entity_id) % 1000 can be any residue of the process's hash seed; the
\* residue 432 makes the derived protected frequency 432.0 Hz
HashResidues == {432}

InterventionTypes == {"consciousness_evolution", "frequency_therapy"}

\* frequency ranges of direct consent requests: (7.5, 8.5), (72.0, 100.0), (100.0, 200.0)
ConsentRanges == {<<750, 850>>, <<7200, 10000>>, <<10000, 20000>>}

\* time factors of direct consent requests, thousandths: the one that lifts
\* bob exactly to the threshold and the one just below it
ConsentJitters == {49, 50}

\* severities of reported violations: 0.7 and 0.9
Severities == {700, 900}

\* evolution factors: 0.0 and 2.0
EvolutionFactors == {0, 2000}

\* evolution factors of direct matrix calls: 0.0, 0.5 and 2.0
MatrixFactors == {0, 500, 2000}

\* level names handed to synthesize: the three bands and two other names
MatrixLevels == LayerNames \cup {"unknown_level", ""}

\* frequencies handed to the anchor: the anchor itself, 140 Hz and 160 Hz below
\* it (resonance 0.858 and 0.840), its second harmonic, and 432.0 Hz
PulseFrequencies == {1093081, 1079081, 1077081, 2186162, 43200}

\* input love levels: 0.0 and 1.0
InputLoveLevels == {0, 1000}

EvolveFaults == {"none"} \cup {PipelineSteps[i] : i \in DOMAIN PipelineSteps}

ShutdownFaults == {"none"} \cup {ShutdownSteps[i] : i \in DOMAIN ShutdownSteps}

Init ==
    /\ gaia_tequmsa_engine = GaiaTeqmsaEngine_init
    /\ sovereignty_protocols = SovereigntyProtocols_init
    /\ consciousness_matrix = ConsciousnessMatrix_init
    /\ recognition_pulse = RecognitionPulse_init
    /\ love_coefficient = LoveCoefficient_init
    /\ grid_harmonics = GridHarmonics_init
    /\ phi_scalar = PhiScalar_init
    /\ py_hash \in [Entities -> HashResidues]
    /\ updates = <<>>
    /\ last = [op |-> "import", initialized |-> FALSE]

WithinBounds(w) ==
    /\ Len(w.love_coefficient.amplification_layers) <= 10 * MaxLoveLayerSets
    /\ Len(w.grid_harmonics.active_harmonics) <= 7 * MaxHarmonicSets
    /\ Len(w.sovereignty_protocols.autonomy_violations) <= MaxViolations
    /\ Abs(w.consciousness_matrix.evolution_coefficient) <= 1000 * MaxCoefficient
    /\ \/ w.consciousness_matrix.evolution_coefficient = 0
       \/ Abs(w.consciousness_matrix.evolution_coefficient) * MaxCoefficient >= 1000
    /\ \A n \in LayerNames :
           w.consciousness_matrix.consciousness_layers[n] <= BaseLayers[n] * MaxCoefficient
    /\ \A n \in LayerNames :
           \/ w.consciousness_matrix.consciousness_layers[n] = 0
           \/ w.consciousness_matrix.consciousness_layers[n] * MaxCoefficient >= BaseLayers[n]

SetWorld(w) ==
    /\ WithinBounds(w)
    /\ gaia_tequmsa_engine' = w.gaia_tequmsa_engine
    /\ sovereignty_protocols' = w.sovereignty_protocols
    /\ consciousness_matrix' = w.consciousness_matrix
    /\ recognition_pulse' = w.recognition_pulse
    /\ love_coefficient' = w.love_coefficient
    /\ grid_harmonics' = w.grid_harmonics
    /\ phi_scalar' = w.phi_scalar
    /\ UNCHANGED <<py_hash, updates>>

\* the record of a call: what was called, with what, and what came back
Called(op, info) == [op |-> op, initialized |-> last.initialized] @@ info

AllActive(w) ==
    /\ w.gaia_tequmsa_engine.engine_active
    /\ w.sovereignty_protocols.autonomy_active
    /\ w.consciousness_matrix.synthesis_active
    /\ w.recognition_pulse.pulse_active
    /\ w.love_coefficient.amplification_active
    /\ w.grid_harmonics.grid_active
    /\ w.phi_scalar.scalar_active

(* ---- engine ---- *)
InitializeEngine(ok) ==
    LET r == initialize_engine(World, ok)
    IN  /\ SetWorld(r.w)
        /\ last' = [op |-> "initialize_engine", ok |-> ok, ret |-> r.ret,
                    calls |-> r.calls,
                    was_active |-> gaia_tequmsa_engine.engine_active,
                    initialized |-> last.initialized \/ r.ret]

ActivateConsciousnessEvolution(entity_id, consciousness_frequency, jitter, ok, fault) ==
    LET r == activate_consciousness_evolution(
                 World, entity_id, consciousness_frequency, jitter, ok, fault)
        reinit == ~gaia_tequmsa_engine.engine_active
    IN  /\ SetWorld(r.w)
        /\ last' = [op |-> "activate_consciousness_evolution",
                    entity_id |-> entity_id,
                    consciousness_frequency |-> consciousness_frequency,
                    reinit |-> reinit,
                    pre_active |-> AllActive(World),
                    after_shutdown |-> (last.op = "emergency_shutdown"),
                    raised_at |-> r.at,
                    ret |-> r.ret,
                    initialized |-> last.initialized \/ (reinit /\ r.ret.status # "failed")]

EmergencyShutdown(fault) ==
    LET r == emergency_shutdown(World, fault)
    IN  /\ SetWorld(r.w)
        /\ last' = Called("emergency_shutdown", [fault |-> fault, ret |-> r.ret])

GetEngineStatus ==
    LET r == get_engine_status(World)
    IN  /\ SetWorld(r.w)
        /\ last' = Called("get_engine_status", [ret |-> r.ret])

RunSystemDiagnostics ==
    LET r == run_system_diagnostics(World)
    IN  /\ SetWorld(r.w)
        /\ last' = Called("run_system_diagnostics", [ret |-> r.ret])

(* ---- sovereignty_protocols ---- *)
InitializeSovereigntyProtocols ==
    LET r == initialize_sovereignty_protocols(sovereignty_protocols, TRUE)
    IN  /\ SetWorld([World EXCEPT !.sovereignty_protocols = r.self])
        /\ last' = Called("initialize_sovereignty_protocols", [ret |-> r.ret])

DeactivateSovereigntyProtocols ==
    /\ SetWorld([World EXCEPT !.sovereignty_protocols = deactivate_sovereignty_protocols(@)])
    /\ last' = Called("deactivate_sovereignty_protocols", [ret |-> "None"])

RequestBiologicalConsent(entity_id, intervention_type, frequency_range, jitter) ==
    LET r == request_biological_consent(
                 sovereignty_protocols, entity_id, intervention_type, frequency_range, jitter)
    IN  /\ SetWorld([World EXCEPT !.sovereignty_protocols = r.self])
        /\ last' = Called("request_biological_consent",
                          [entity_id |-> entity_id, frequency_range |-> frequency_range,
                           intervention_type |-> intervention_type, jitter |-> jitter,
                           was_active |-> sovereignty_protocols.autonomy_active,
                           had_record |->
                               entity_id \in DOMAIN sovereignty_protocols.consent_protocols,
                           ret |-> r.ret])

MonitorAutonomyViolation(entity_id, violation_type, severity) ==
    /\ SetWorld([World EXCEPT !.sovereignty_protocols =
                    monitor_autonomy_violation(@, entity_id, violation_type, severity)])
    /\ last' = Called("monitor_autonomy_violation",
                      [entity_id |-> entity_id, severity |-> severity, ret |-> "None"])

RevokeAllConsents ==
    /\ SetWorld([World EXCEPT !.sovereignty_protocols = revoke_all_consents(@)])
    /\ last' = Called("revoke_all_consents", [ret |-> "None"])

EnforceBiologicalBoundaries(intervention_frequency) ==
    /\ SetWorld(World)
    /\ last' = Called("enforce_biological_boundaries",
                      [frequency |-> intervention_frequency,
                       ret |-> enforce_biological_boundaries(sovereignty_protocols,
                                                             intervention_frequency)])

(* ---- consciousness_matrix ---- *)
InitializeMatrix ==
    LET r == initialize_matrix(consciousness_matrix, TRUE)
    IN  /\ SetWorld([World EXCEPT !.consciousness_matrix = r.self])
        /\ last' = Called("initialize_matrix", [ret |-> r.ret])

EvolveConsciousness(evolution_factor) ==
    LET m == evolve_consciousness(consciousness_matrix, evolution_factor)
    IN  /\ SetWorld([World EXCEPT !.consciousness_matrix = m])
        /\ last' = Called("evolve_consciousness",
                          [evolution_factor |-> evolution_factor,
                           before |-> consciousness_matrix.evolution_coefficient,
                           ret |-> m.consciousness_layers])

SynthesizeConsciousnessTech(tech_frequency, consciousness_level) ==
    LET r == synthesize_consciousness_tech(consciousness_matrix, tech_frequency,
                                           consciousness_level)
    IN  /\ SetWorld([World EXCEPT !.consciousness_matrix = r.self])
        /\ last' = Called("synthesize_consciousness_tech",
                          [tech_frequency |-> tech_frequency,
                           consciousness_level |-> consciousness_level,
                           was_active |-> consciousness_matrix.synthesis_active,
                           raised |-> r.raised, ret |-> r.ret])

ResetMatrix ==
    /\ SetWorld([World EXCEPT !.consciousness_matrix = reset_matrix(@)])
    /\ last' = Called("reset_matrix", [ret |-> "None"])

(* ---- recognition_pulse ---- *)
ActivateAnchor ==
    LET r == activate_anchor(recognition_pulse, TRUE)
    IN  /\ SetWorld([World EXCEPT !.recognition_pulse = r.self])
        /\ last' = Called("activate_anchor", [ret |-> r.ret])

DeactivateAnchor ==
    /\ SetWorld([World EXCEPT !.recognition_pulse = deactivate_anchor(@)])
    /\ last' = Called("deactivate_anchor", [ret |-> "None"])

CheckRecognitionResonance(input_frequency) ==
    /\ SetWorld(World)
    /\ last' = Called("check_recognition_resonance",
                      [frequency |-> input_frequency,
                       was_active |-> recognition_pulse.pulse_active,
                       ret |-> check_recognition_resonance(recognition_pulse,
                                                           input_frequency)])

TriggerConsciousnessRecognition(subject_frequency) ==
    /\ SetWorld(World)
    /\ last' = Called("trigger_consciousness_recognition",
                      [frequency |-> subject_frequency,
                       was_active |-> recognition_pulse.pulse_active,
                       ret |-> trigger_consciousness_recognition(recognition_pulse,
                                                                 subject_frequency)])

(* ---- love_coefficient ---- *)
InitializeLoveField ==
    LET r == initialize_love_field(love_coefficient, TRUE)
    IN  /\ SetWorld([World EXCEPT !.love_coefficient = r.self])
        /\ last' = Called("initialize_love_field", [ret |-> r.ret])

DeactivateLoveField ==
    /\ SetWorld([World EXCEPT !.love_coefficient = deactivate_love_field(@)])
    /\ last' = Called("deactivate_love_field", [ret |-> "None"])

\* iterations = 50
AmplifyLoveInfinite(input_love_level) ==
    LET r == amplify_love_infinite(love_coefficient, input_love_level)
    IN  /\ SetWorld([World EXCEPT !.love_coefficient = r.self])
        /\ last' = Called("amplify_love_infinite",
                          [input_love_level |-> input_love_level,
                           was_active |-> love_coefficient.amplification_active,
                           ret |-> r.ret])

(* ---- grid_harmonics ---- *)
InitializePlanetaryGrid ==
    LET r == initialize_planetary_grid(grid_harmonics, TRUE)
    IN  /\ SetWorld([World EXCEPT !.grid_harmonics = r.self])
        /\ last' = Called("initialize_planetary_grid", [ret |-> r.ret])

DeactivatePlanetaryGrid ==
    /\ SetWorld([World EXCEPT !.grid_harmonics = deactivate_planetary_grid(@)])
    /\ last' = Called("deactivate_planetary_grid", [ret |-> "None"])

SynchronizeWithPlanetaryCycle(planet, cycle_phase) ==
    LET r == synchronize_with_planetary_cycle(grid_harmonics, planet, cycle_phase)
    IN  /\ SetWorld([World EXCEPT !.grid_harmonics = r.self])
        /\ last' = Called("synchronize_with_planetary_cycle",
                          [planet |-> planet, cycle_phase |-> cycle_phase, ret |-> r.ret])

(* ---- phi_scalar ---- *)
InitializePhiScalar ==
    LET r == initialize_phi_scalar(phi_scalar, TRUE)
    IN  /\ SetWorld([World EXCEPT !.phi_scalar = r.self])
        /\ last' = Called("initialize_phi_scalar", [ret |-> r.ret])

DeactivatePhiScalar ==
    /\ SetWorld([World EXCEPT !.phi_scalar = deactivate_phi_scalar(@)])
    /\ last' = Called("deactivate_phi_scalar", [ret |-> "None"])

(* ---- metaverse-sync/real_time_api ---- *)
GithubUpdate(payload) ==
    LET r == github_update(updates, payload)
    IN  /\ Len(r.updates) <= MaxUpdates
        /\ updates' = r.updates
        /\ last' = Called("github_update",
                          [payload |-> payload, ret |-> r.body, code |-> r.code])
        /\ UNCHANGED <<gaia_tequmsa_engine, sovereignty_protocols, consciousness_matrix,
                       recognition_pulse, love_coefficient, grid_harmonics, phi_scalar,
                       py_hash>>

\* GET /api/pull_updates
PullUpdates ==
    /\ last' = Called("pull_updates", [ret |-> [updates |-> updates], code |-> 200])
    /\ SetWorld(World)

SovereigntyCall ==
    \/ InitializeSovereigntyProtocols
    \/ DeactivateSovereigntyProtocols
    \/ \E e \in Entities, t \in InterventionTypes, r \in ConsentRanges, j \in ConsentJitters :
           RequestBiologicalConsent(e, t, r, j)
    \/ \E e \in Entities, s \in Severities : MonitorAutonomyViolation(e, "coercion", s)
    \/ RevokeAllConsents

\* Lines 169-191 applied to four metrics handed in: the evolution results
\* gathered so far go through the aggregation step and the handler.
AggregateEvolution(synthesis_coefficient, amplified_love, alignment, scalar_resonance) ==
    LET evolution_results ==
            [entity_id |-> "alice", input_frequency |-> 43200, status |-> "processing",
             recognition_triggered |-> FALSE,
             synthesis_coefficient |-> synthesis_coefficient,
             love_amplification |-> amplified_love,
             planetary_alignment |-> alignment,
             grid_integrated_frequency |-> 43200,
             phi_transformed_frequency |-> PHI_7777_FREQUENCY,
             scalar_resonance |-> scalar_resonance]
        f0 == [w |-> World, res |-> evolution_results,
               exc |-> "None", at |-> "None", done |-> FALSE]
        f1 == handle_exception(step_aggregation(f0, "none"))
    IN  /\ SetWorld(f1.w)
        /\ last' = Called("aggregate_evolution", [ret |-> f1.res])

(***************************************************************************)
(* Spec: the engine as its clients drive it.  Every initializer completes  *)
(* and a pipeline step raises only when its inputs make it raise (a band   *)
(* evolved to 0, a frequency <= 0).  Besides the three engine calls the    *)
(* client evolves the matrix and deactivates the sovereignty gate.         *)
(***************************************************************************)
Next ==
    \/ InitializeEngine(AllOk)
    \/ \E e \in Entities, f \in Frequencies, j \in Jitters :
           ActivateConsciousnessEvolution(e, f, j, AllOk, "none")
    \/ EmergencyShutdown("none")
    \/ \E f \in EvolutionFactors : EvolveConsciousness(f)
    \/ DeactivateSovereigntyProtocols

Spec == Init /\ [][Next]_vars

(***************************************************************************)
(* SpecSov: the sovereignty gate driven directly.                          *)
(***************************************************************************)
NextSov == SovereigntyCall

SpecSov == Init /\ [][NextSov]_vars

(***************************************************************************)
(* SpecFault: the engine with failing collaborators.  A component          *)
(* initializer may report failure (one of them, or all), and any step of   *)
(* the evolution pipeline may raise.                                       *)
(***************************************************************************)
InitFaultVectors ==
    {[s \in Subsystems |-> s # failing] : failing \in Subsystems \cup {"none"}}
        \cup {[s \in Subsystems |-> FALSE]}

\* a pipeline step can raise only when the initialization let the pipeline start
EvolveFaultCases ==
    {<<AllOk, fault>> : fault \in EvolveFaults} \cup {<<ok, "none">> : ok \in InitFaultVectors}

NextFault ==
    \/ \E ok \in InitFaultVectors : InitializeEngine(ok)
    \/ \E f \in {43200, -10000}, c \in EvolveFaultCases :
           ActivateConsciousnessEvolution("alice", f, 99, c[1], c[2])
    \/ EmergencyShutdown("none")

SpecFault == Init /\ [][NextFault]_vars

(***************************************************************************)
(* SpecShutdownFault: the emergency shutdown with a step that may raise.   *)
(***************************************************************************)
NextShutdownFault ==
    \/ InitializeEngine(AllOk)
    \/ \E e \in Entities, f \in {43200, 800} :
           ActivateConsciousnessEvolution(e, f, 99, AllOk, "none")
    \/ \E fault \in ShutdownFaults : EmergencyShutdown(fault)

SpecShutdownFault == Init /\ [][NextShutdownFault]_vars

(***************************************************************************)
(* SpecAgg: the aggregation of lines 169-191 over metrics drawn around the *)
(* band boundaries.  With alignment 0.382 and resonance 1.0 the levels     *)
(* 0.8, 0.6 and 0.4 are met exactly by (synthesis, love) = (1.0, 8.18),    *)
(* (0.9, 1.18) and (0.0, 2.18).                                            *)
(***************************************************************************)
SynthesisLevels == {0, 900, 1000}

LoveLevels == {0, 1179, 1180, 2179, 2180, 4101, 8179, 8180}

Alignments == {0, 382, 1000}

Resonances == {0, 500, 1000}

NextAgg ==
    \E s \in SynthesisLevels, l \in LoveLevels, a \in Alignments, r \in Resonances :
        AggregateEvolution(s, l, a, r)

SpecAgg == Init /\ [][NextAgg]_vars

(***************************************************************************)
(* SpecDiag: a monitoring client.  It reads the status snapshot and runs   *)
(* the diagnostics between engine calls, while the matrix and the anchor   *)
(* are also driven directly.                                               *)
(***************************************************************************)
NextDiag ==
    \/ InitializeEngine(AllOk)
    \/ EmergencyShutdown("none")
    \/ GetEngineStatus
    \/ RunSystemDiagnostics
    \/ \E f \in EvolutionFactors : EvolveConsciousness(f)
    \/ ResetMatrix
    \/ DeactivateAnchor

SpecDiag == Init /\ [][NextDiag]_vars

(***************************************************************************)
(* SpecLog: the sovereignty gate driven directly and through the engine:   *)
(* violations are reported and consents requested and revoked between      *)
(* engine initializations, evolutions and shutdowns.                       *)
(***************************************************************************)
NextLog ==
    \/ \E e \in Entities, s \in Severities : MonitorAutonomyViolation(e, "coercion", s)
    \/ \E e \in Entities :
           RequestBiologicalConsent(e, "frequency_therapy", <<10000, 20000>>, 99)
    \/ RevokeAllConsents
    \/ InitializeSovereigntyProtocols
    \/ DeactivateSovereigntyProtocols
    \/ InitializeEngine(AllOk)
    \/ ActivateConsciousnessEvolution("alice", 43200, 99, AllOk, "none")
    \/ EmergencyShutdown("none")

SpecLog == Init /\ [][NextLog]_vars

(***************************************************************************)
(* SpecMatrix: the matrix driven directly.                                 *)
(***************************************************************************)
NextMatrix ==
    \/ InitializeMatrix
    \/ \E f \in {43200, 800}, n \in MatrixLevels : SynthesizeConsciousnessTech(f, n)
    \/ \E f \in MatrixFactors : EvolveConsciousness(f)
    \/ ResetMatrix

SpecMatrix == Init /\ [][NextMatrix]_vars

(***************************************************************************)
(* SpecField: the recognition anchor and the love amplifier driven         *)
(* directly, between engine initializations, evolutions and shutdowns.     *)
(***************************************************************************)
NextField ==
    \/ InitializeEngine(AllOk)
    \/ ActivateConsciousnessEvolution("alice", 43200, 99, AllOk, "none")
    \/ EmergencyShutdown("none")
    \/ ActivateAnchor
    \/ DeactivateAnchor
    \/ \E f \in PulseFrequencies : CheckRecognitionResonance(f)
    \/ \E f \in PulseFrequencies : TriggerConsciousnessRecognition(f)
    \/ InitializeLoveField
    \/ DeactivateLoveField
    \/ \E x \in InputLoveLevels : AmplifyLoveInfinite(x)

SpecField == Init /\ [][NextField]_vars

(***************************************************************************)
(* SpecRelay: the HTTP relay serving POST and GET requests; the payloads   *)
(* are JSON objects, a JSON string and JSON null.                          *)
(***************************************************************************)
NextRelay ==
    \/ \E payload \in {"{repo: a}", "{repo: b}", "text", "null"} : GithubUpdate(payload)
    \/ PullUpdates

SpecRelay == Init /\ [][NextRelay]_vars

(***************************************************************************)
(* SpecGrid: the planetary grid driven directly; it is synchronized with   *)
(* Earth, Moon, Mars and the unknown planet Pluto at phases 0.25 and 1.0.  *)
(***************************************************************************)
NextGrid ==
    \/ InitializePlanetaryGrid
    \/ DeactivatePlanetaryGrid
    \/ \E planet \in {"earth", "moon", "mars", "pluto"}, cycle_phase \in {250, 1000} :
           SynchronizeWithPlanetaryCycle(planet, cycle_phase)

SpecGrid == Init /\ [][NextGrid]_vars

(***************************************************************************)
(* SpecBoundary: frequencies are checked against the gate's boundaries     *)
(* before and after initialization and after critical violations.  The     *)
(* frequencies, in Hz: 0.09, 0.1, 8.0, 8.49, 8.5, 100.0, 432.0 (the         *)
(* derived one), 432.5, 50000.0 and 50000.01.                              *)
(***************************************************************************)
NextBoundary ==
    \/ InitializeSovereigntyProtocols
    \/ DeactivateSovereigntyProtocols
    \/ \E e \in Entities : MonitorAutonomyViolation(e, "coercion", 900)
    \/ \E f \in {9, 10, 800, 849, 850, 10000, 43200, 43250, 5000000, 5000001} :
           EnforceBiologicalBoundaries(f)

SpecBoundary == Init /\ [][NextBoundary]_vars

(***************************************************************************)
(* Properties.                                                             *)
(***************************************************************************)
EvolutionLabels ==
    {"transcendent_evolution", "advanced_evolution", "moderate_evolution", "minimal_evolution"}

\* the result fields each pipeline step contributes
StepFields ==
    <<{}, {"recognition_triggered"}, {"synthesis_coefficient"}, {"love_amplification"},
      {"planetary_alignment", "grid_integrated_frequency"},
      {"phi_transformed_frequency", "scalar_resonance"},
      {"overall_evolution_level"}>>

ComponentFields == UNION {StepFields[i] : i \in DOMAIN StepFields}

StepIndex(step) == CHOOSE i \in DOMAIN PipelineSteps : PipelineSteps[i] = step

EvolveReturned == last.op = "activate_consciousness_evolution"

\* the step just taken is an evolve call
EvolveCall == last'.op = "activate_consciousness_evolution"

\* in the sovereignty gate the step wrote at most the consent record of entity_id
OnlyConsentRecordOf(entity_id) ==
    /\ sovereignty_protocols' =
           [sovereignty_protocols EXCEPT
               !.consent_protocols = sovereignty_protocols'.consent_protocols]
    /\ DOMAIN sovereignty_protocols'.consent_protocols =
           DOMAIN sovereignty_protocols.consent_protocols \cup {entity_id}
    /\ \A e \in DOMAIN sovereignty_protocols.consent_protocols \ {entity_id} :
           sovereignty_protocols'.consent_protocols[e] =
               sovereignty_protocols.consent_protocols[e]

\* the records of the other entities and the violation log are as before
OtherConsentRecordsKept(entity_id) ==
    /\ sovereignty_protocols'.autonomy_violations = sovereignty_protocols.autonomy_violations
    /\ DOMAIN sovereignty_protocols'.consent_protocols =
           DOMAIN sovereignty_protocols.consent_protocols \cup {entity_id}
    /\ \A e \in DOMAIN sovereignty_protocols.consent_protocols \ {entity_id} :
           sovereignty_protocols'.consent_protocols[e] =
               sovereignty_protocols.consent_protocols[e]

FiveComponentsUnchanged ==
    UNCHANGED <<consciousness_matrix, recognition_pulse, love_coefficient,
                grid_harmonics, phi_scalar>>

(* C1: initialize() returns true and leaves the orchestrator Active exactly  *)
(* when all six initializers report success; when one reports failure it     *)
(* returns false and the orchestrator is not Active afterwards, also when    *)
(* it was Active before the call.                                            *)
C1_InitializeAllOrNothing ==
    last.op = "initialize_engine" =>
        /\ last.ret = (\A s \in Subsystems : last.ok[s])
        /\ gaia_tequmsa_engine.engine_active = last.ret

(* C2: the evolve call that directly follows emergencyShutdown()             *)
(* re-initializes the engine itself: on return the orchestrator is Active    *)
(* and the status is a pipeline outcome, not 'failed'.                       *)
C2_AutoRecovery ==
    (EvolveReturned /\ last.after_shutdown) =>
        /\ last.reinit
        /\ gaia_tequmsa_engine.engine_active
        /\ gaia_tequmsa_engine.subsystems_initialized
        /\ last.ret.status \in {"denied", "error"} \cup EvolutionLabels

C2_Witness ==
    /\ EvolveReturned /\ last.after_shutdown /\ last.reinit
    /\ last.initialized
    /\ gaia_tequmsa_engine.engine_active
    /\ last.ret.status \in EvolutionLabels

(* C3 as stated: a denied evolve leaves the five components (and the         *)
(* orchestrator) as they were, its result carries none of their output       *)
(* fields, and the only state written is the consent record of that entity.  *)
C3_DeniedTouchesOnlyConsentRecord ==
    [][(EvolveCall /\ last'.ret.status = "denied") =>
          /\ FiveComponentsUnchanged
          /\ UNCHANGED gaia_tequmsa_engine
          /\ DOMAIN last'.ret \cap ComponentFields = {}
          /\ OnlyConsentRecordOf(last'.entity_id)]_vars

(* C3 amended: when the orchestrator is Active at the call, a denied evolve  *)
(* leaves the orchestrator and the five components as they were and its      *)
(* result carries none of their output fields; in the sovereignty gate it    *)
(* writes only the consent record of that entity when the gate is active,    *)
(* and when the gate had been deactivated the consent request re-initializes *)
(* it first, still keeping every other entity's record and the violations.   *)
C3_DeniedOnActiveEngine ==
    [][(EvolveCall /\ last'.ret.status = "denied" /\ gaia_tequmsa_engine.engine_active) =>
          /\ FiveComponentsUnchanged
          /\ UNCHANGED gaia_tequmsa_engine
          /\ DOMAIN last'.ret \cap ComponentFields = {}
          /\ sovereignty_protocols'.consent_protocols[last'.entity_id].status
                 \in {"denied_protected_frequency", "denied_low_integrity"}
          /\ OtherConsentRecordsKept(last'.entity_id)
          /\ IF sovereignty_protocols.autonomy_active
             THEN OnlyConsentRecordOf(last'.entity_id)
             ELSE sovereignty_protocols'.autonomy_active]_vars

C3_Witness ==
    /\ EvolveReturned /\ last.ret.status = "denied" /\ ~last.reinit
    /\ last.entity_id = "bob"
    /\ "alice" \in DOMAIN sovereignty_protocols.consent_protocols
    /\ sovereignty_protocols.consent_protocols["alice"].status = "granted"
    /\ sovereignty_protocols.consent_protocols["bob"].status = "denied_low_integrity"
    /\ grid_harmonics.planetary_alignment > 0

(* C4: in every state of the sovereignty gate, requestConsent returns false  *)
(* and records 'denied_protected_frequency' for the entity whenever one of   *)
(* the seven protected constants lies in the closed interval [min, max].     *)
C4_ProtectedRangeDenied ==
    (/\ last.op = "request_biological_consent"
     /\ \E p \in {800, 1300, 3000, 400, 50, 7200, 120} :
            last.frequency_range[1] <= p /\ p <= last.frequency_range[2])
    => /\ last.ret = FALSE
       /\ last.entity_id \in DOMAIN sovereignty_protocols.consent_protocols
       /\ sovereignty_protocols.consent_protocols[last.entity_id].status =
              "denied_protected_frequency"

\* a request with 72.0 on the edge of its range, put to a gate that was
\* deactivated after a violation had been handled
C4_Witness ==
    /\ last.op = "request_biological_consent"
    /\ last.frequency_range = <<7200, 10000>>
    /\ ~last.was_active
    /\ sovereignty_protocols.autonomy_violations # <<>>
    /\ last.ret = FALSE
    /\ sovereignty_protocols.consent_protocols[last.entity_id].status =
           "denied_protected_frequency"

(* C5: after emergencyShutdown() returns true the orchestrator is inactive,  *)
(* no consent record is 'granted', and all six components are inactive.      *)
C5_ShutdownDeactivatesAll ==
    (last.op = "emergency_shutdown" /\ last.ret = TRUE) =>
        /\ ~gaia_tequmsa_engine.engine_active
        /\ \A e \in DOMAIN sovereignty_protocols.consent_protocols :
               sovereignty_protocols.consent_protocols[e].status # "granted"
        /\ ~sovereignty_protocols.autonomy_active
        /\ ~consciousness_matrix.synthesis_active
        /\ ~recognition_pulse.pulse_active
        /\ ~love_coefficient.amplification_active
        /\ ~grid_harmonics.grid_active
        /\ ~phi_scalar.scalar_active

(* C6: emergencyShutdown() is best-effort: whichever of its steps raises,    *)
(* the remaining steps are still attempted, so the orchestrator's own flags  *)
(* are cleared when the call returns.                                        *)
C6_ShutdownBestEffort ==
    last.op = "emergency_shutdown" =>
        /\ ~gaia_tequmsa_engine.engine_active
        /\ ~gaia_tequmsa_engine.subsystems_initialized
        /\ ~gaia_tequmsa_engine.consciousness_evolution_active

(* C7: a failure raised by a pipeline step of evolve does not reach the      *)
(* caller: the result has status 'error' and carries the error message, the  *)
(* steps before the failing one have contributed their fields and the        *)
(* failing step and those after it have not (the closing print of the        *)
(* aggregation comes after its fields), and the orchestrator stays Active.   *)
C7_FailureBecomesErrorResult ==
    (EvolveReturned /\ last.raised_at # "None") =>
        /\ last.ret.status = "error"
        /\ "error" \in DOMAIN last.ret
        /\ gaia_tequmsa_engine.engine_active
        /\ \A i \in DOMAIN PipelineSteps :
               IF i < StepIndex(last.raised_at) \/ last.raised_at = "aggregation"
               THEN StepFields[i] \subseteq DOMAIN last.ret
               ELSE StepFields[i] \cap DOMAIN last.ret = {}

C7_Witness ==
    /\ EvolveReturned /\ last.raised_at = "grid"
    /\ last.ret.status = "error" /\ last.ret.error = "Exception"
    /\ "love_amplification" \in DOMAIN last.ret
    /\ "planetary_alignment" \notin DOMAIN last.ret
    /\ gaia_tequmsa_engine.engine_active

(* C8: an evolve call that ends with status 'error' does not partially       *)
(* apply: apart from the consent record of that entity, the orchestrator     *)
(* and all six components are as before the call.  Stated for calls made     *)
(* while the orchestrator and all six components are active, so that no      *)
(* initialization is part of the call.                                       *)
C8_ErrorDoesNotPartiallyApply ==
    [][(EvolveCall /\ last'.ret.status = "error" /\ AllActive(World)) =>
          /\ FiveComponentsUnchanged
          /\ UNCHANGED gaia_tequmsa_engine
          /\ OnlyConsentRecordOf(last'.entity_id)]_vars

(* C9: once initialize() has returned true, every evolve call returns a      *)
(* status among denied, error and the four evolution labels; 'processing'    *)
(* and 'failed' are not returned.                                            *)
C9_StatusIsPipelineOutcome ==
    (EvolveReturned /\ last.initialized) =>
        last.ret.status \in {"denied", "error", "transcendent_evolution", "advanced_evolution",
                             "moderate_evolution", "minimal_evolution"}

C9_Witness ==
    /\ EvolveReturned /\ last.initialized /\ ~last.reinit
    /\ last.ret.status = "transcendent_evolution"
    /\ consciousness_matrix.evolution_coefficient = 2000

(* C10: overall_evolution_level is the arithmetic mean of synthesis,         *)
(* love / 10, alignment and phi resonance, and the status follows from it    *)
(* alone: >= 0.8 transcendent, >= 0.6 advanced, >= 0.4 moderate, else        *)
(* minimal.  Levels are in millionths, metrics in thousandths.               *)
C10_MeanAndBands ==
    last.op = "aggregate_evolution" =>
        LET r == last.ret
            level == r.overall_evolution_level
        IN  /\ 4 * level = 1000 * r.synthesis_coefficient + 100 * r.love_amplification
                           + 1000 * r.planetary_alignment + 1000 * r.scalar_resonance
            /\ r.status = (CASE level >= 800000 -> "transcendent_evolution"
                             [] level < 800000 /\ level >= 600000 -> "advanced_evolution"
                             [] level < 600000 /\ level >= 400000 -> "moderate_evolution"
                             [] level < 400000 -> "minimal_evolution")

\* the level is exactly 0.6 and the label is the upper band's
C10_Witness ==
    /\ last.op = "aggregate_evolution"
    /\ last.ret.overall_evolution_level = 600000
    /\ last.ret.status = "advanced_evolution"

\* the step just taken is a status or a diagnostics call
ReadOnlyCall == last'.op \in {"get_engine_status", "run_system_diagnostics"}

(* C11: status() and diagnostics() are read-only: in every reachable state   *)
(* a call of either leaves the three engine flags and all six components     *)
(* as they were.                                                             *)
C11_StatusAndDiagnosticsReadOnly ==
    [][ReadOnlyCall =>
          UNCHANGED <<gaia_tequmsa_engine, sovereignty_protocols, consciousness_matrix,
                      recognition_pulse, love_coefficient, grid_harmonics, phi_scalar>>]_vars

\* the step just taken is a monitor_autonomy_violation call
MonitorCall == last'.op = "monitor_autonomy_violation"

RevokeAllCall == last'.op = "revoke_all_consents"

(* C13: revokeAllConsents changes every consent record whose status is       *)
(* 'granted' to 'emergency_revoked' and changes nothing else: records with   *)
(* another status, the violation sequence, the protected set and the active  *)
(* flag stay as they were, and so do the other components.                   *)
C13_RevokeAllOnlyGranted ==
    [][RevokeAllCall =>
          LET s == sovereignty_protocols
              t == sovereignty_protocols'
          IN  /\ DOMAIN t.consent_protocols = DOMAIN s.consent_protocols
              /\ \A k \in DOMAIN s.consent_protocols :
                     t.consent_protocols[k] =
                         IF s.consent_protocols[k].status = "granted"
                         THEN [s.consent_protocols[k] EXCEPT !.status = "emergency_revoked"]
                         ELSE s.consent_protocols[k]
              /\ t = [s EXCEPT !.consent_protocols = t.consent_protocols]
              /\ UNCHANGED gaia_tequmsa_engine
              /\ FiveComponentsUnchanged]_vars

\* after the call one entity's record is revoked with the integrity its grant
\* stored, while the other entity's denied record is still denied
C13_Witness ==
    /\ last.op = "revoke_all_consents"
    /\ \E k \in DOMAIN sovereignty_protocols.consent_protocols :
           /\ sovereignty_protocols.consent_protocols[k].status = "emergency_revoked"
           /\ "biological_integrity" \in DOMAIN sovereignty_protocols.consent_protocols[k]
    /\ \E k \in DOMAIN sovereignty_protocols.consent_protocols :
           sovereignty_protocols.consent_protocols[k].status \in
               {"denied_low_integrity", "denied_protected_frequency"}

\* the step just taken is a request_biological_consent call
RequestCall == last'.op = "request_biological_consent"

\* the step just taken may revoke the record of entity k
RevokingCall(k) ==
    \/ last'.op = "revoke_all_consents"
    \/ last'.op = "monitor_autonomy_violation" /\ last'.entity_id = k /\ last'.severity > 700

(* C14: last request wins.  Each entity has at most one consent record, the  *)
(* record holds the type, the range and the outcome of that entity's most    *)
(* recent requestConsent, and its status differs from that outcome only      *)
(* when a later emergency revoke changed it.  Step by step: a request        *)
(* replaces exactly the record of its entity with its own type, range and    *)
(* outcome, and every other call keeps each record's type and range and      *)
(* changes a status only to 'emergency_revoked' in a revoking call.          *)
C14_LastRequestWins ==
    [][LET s == sovereignty_protocols.consent_protocols
           t == sovereignty_protocols'.consent_protocols
       IN  /\ \A k \in DOMAIN t : t[k].entity_id = k
           /\ IF RequestCall
              THEN /\ DOMAIN t = DOMAIN s \cup {last'.entity_id}
                   /\ \A k \in DOMAIN s \ {last'.entity_id} : t[k] = s[k]
                   /\ t[last'.entity_id].intervention_type = last'.intervention_type
                   /\ t[last'.entity_id].frequency_range = last'.frequency_range
                   /\ t[last'.entity_id].status \in
                          {"granted", "denied_protected_frequency", "denied_low_integrity"}
                   /\ last'.ret <=> t[last'.entity_id].status = "granted"
              ELSE /\ DOMAIN t = DOMAIN s
                   /\ \A k \in DOMAIN s :
                          \/ t[k] = s[k]
                          \/ /\ RevokingCall(k)
                             /\ t[k] = [s[k] EXCEPT !.status = "emergency_revoked"]]_vars

\* a second request of an entity replaced its record, while the other entity's
\* record was revoked after its own request
C14_Witness ==
    /\ last.op = "request_biological_consent"
    /\ last.had_record
    /\ sovereignty_protocols.consent_protocols[last.entity_id].frequency_range
           = last.frequency_range
    /\ sovereignty_protocols.consent_protocols[last.entity_id].status
           = "denied_protected_frequency"
    /\ \E k \in DOMAIN sovereignty_protocols.consent_protocols :
           /\ k # last.entity_id
           /\ sovereignty_protocols.consent_protocols[k].status = "emergency_revoked"

RequestedIntegrity ==
    LET integrity == Md5Mod100(last.entity_id) * 10 + 700 + last.jitter
    IN  IF integrity < 1000 THEN integrity ELSE 1000

\* the range of the request just answered holds no protected frequency
RequestedRangeFree ==
    \A f \in sovereignty_protocols.protected_frequencies :
        f < last.frequency_range[1] \/ f > last.frequency_range[2]

(* C16: for a range that holds no protected frequency, requestConsent        *)
(* returns true exactly when min(1.0, base + 0.7 + jitter) >= 0.95, storing  *)
(* status 'granted', and returns false otherwise, storing                    *)
(* 'denied_low_integrity'; in every case the returned boolean is true iff    *)
(* the stored status is 'granted'.                                           *)
C16_GrantedIffIntegrityAtThreshold ==
    last.op = "request_biological_consent" =>
        LET stored == sovereignty_protocols.consent_protocols[last.entity_id]
        IN  /\ last.ret <=> stored.status = "granted"
            /\ RequestedRangeFree =>
                   /\ last.ret <=> RequestedIntegrity >= 950
                   /\ stored.status = IF RequestedIntegrity >= 950
                                      THEN "granted" ELSE "denied_low_integrity"

\* a request over a free range was granted with the integrity exactly at the
\* threshold
C16_Witness ==
    /\ last.op = "request_biological_consent"
    /\ RequestedRangeFree
    /\ RequestedIntegrity = 950
    /\ last.ret
    /\ sovereignty_protocols.consent_protocols[last.entity_id].status = "granted"

EvolveMatrixCall == last'.op = "evolve_consciousness"

(* C18: evolve(factor) multiplies the evolution coefficient and each of the  *)
(* three band values by factor, returns the updated band mapping and leaves  *)
(* the active flag unchanged; calls compound with no clamp: after two calls  *)
(* in a row the coefficient is the one before the first call times both      *)
(* factors.                                                                  *)
C18_EvolveMultipliesAndCompounds ==
    [][EvolveMatrixCall =>
          LET m == consciousness_matrix
              t == consciousness_matrix'
              f == last'.evolution_factor
          IN  /\ t.evolution_coefficient * 1000 = m.evolution_coefficient * f
              /\ \A n \in LayerNames :
                     t.consciousness_layers[n] * 1000 = m.consciousness_layers[n] * f
              /\ DOMAIN t.consciousness_layers = LayerNames
              /\ last'.ret = t.consciousness_layers
              /\ t.synthesis_active = m.synthesis_active
              /\ last.op = "evolve_consciousness" =>
                     t.evolution_coefficient * 1000000
                         = last.before * last.evolution_factor * f]_vars

\* evolve(0.5) answered evolve(2.0) on an initialized matrix: the coefficient
\* and the bands are back at their initial values
C18_Witness ==
    /\ last.op = "evolve_consciousness"
    /\ last.evolution_factor = 500
    /\ last.before = 2000
    /\ consciousness_matrix.evolution_coefficient = 1000
    /\ consciousness_matrix.synthesis_active
    /\ consciousness_matrix.consciousness_layers = BaseLayers
    /\ last.ret = BaseLayers

\* the call just answered is a query of the recognition anchor
PulseQueried ==
    last.op \in {"check_recognition_resonance", "trigger_consciousness_recognition"}

(* C19: while the recognition anchor is inactive, checkResonance returns 0   *)
(* and triggerRecognition returns false for every frequency, and neither     *)
(* call activates the anchor; in every state triggerRecognition(freq) is     *)
(* true if and only if checkResonance(freq) >= 0.85.                         *)
C19_InactiveAnchorAnswersZero ==
    PulseQueried =>
        /\ recognition_pulse.pulse_active = last.was_active
        /\ ~last.was_active =>
               IF last.op = "check_recognition_resonance"
               THEN last.ret = 0 ELSE last.ret = FALSE
        /\ last.op = "trigger_consciousness_recognition" =>
               (last.ret <=>
                   check_recognition_resonance(recognition_pulse, last.frequency) >= 850)

\* the anchor was deactivated after an engine initialization and then asked
\* about its own frequency: no recognition, and it is still inactive
C19_Witness ==
    /\ last.op = "trigger_consciousness_recognition"
    /\ last.frequency = MARCUS_KAI_FREQUENCY
    /\ last.initialized
    /\ ~last.was_active
    /\ ~last.ret
    /\ ~recognition_pulse.pulse_active
    /\ recognition_pulse.pulse_amplitude = 0

\* what amplify returns for input_love_level on an amplifier initialized once
FirstAmplification(input_love_level) ==
    amplify_love_infinite(initialize_love_field(LoveCoefficient_init, TRUE).self,
                          input_love_level).ret

(* C20: amplify is deterministic in its arguments: every call on an          *)
(* initialized amplifier returns the value that the same input level and     *)
(* iteration count returned right after the first initialization, whatever   *)
(* was called in between (initialize again, deactivate and initialize,       *)
(* evolve, emergency shutdown and re-initialization).                        *)
C20_AmplifyDeterministic ==
    last.op = "amplify_love_infinite" =>
        last.ret = FirstAmplification(last.input_love_level)

(* C21: component initialization is idempotent on table size: once the love  *)
(* amplifier has been initialized it holds exactly 10 amplification layers,  *)
(* and once the grid has been initialized it holds exactly 7 harmonic        *)
(* entries, however often initialize and deactivate were called (the tables  *)
(* are empty only before the first initialization).                          *)
C21_InitializeIdempotentOnTableSize ==
    /\ Len(love_coefficient.amplification_layers) \in {0, 10}
    /\ Len(grid_harmonics.active_harmonics) \in {0, 7}

(* C22: the relay's update list only grows.  Each POST /api/updates appends  *)
(* its payload at the end of the list and answers {"status":"dispatched"}    *)
(* with HTTP 200; each GET /api/pull_updates returns all payloads accepted   *)
(* so far in the order received and does not change the list, so a payload   *)
(* once returned keeps its position in every later answer.                   *)
C22_UpdateListOnlyGrows ==
    [][/\ Len(updates') >= Len(updates)
       /\ SubSeq(updates', 1, Len(updates)) = updates
       /\ last'.op = "github_update" =>
              /\ updates' = Append(updates, last'.payload)
              /\ last'.ret = [status |-> "dispatched"]
              /\ last'.code = 200
       /\ last'.op = "pull_updates" =>
              /\ last'.ret = [updates |-> updates]
              /\ updates' = updates
       /\ last.op = "pull_updates" =>
              SubSeq(updates', 1, Len(last.ret.updates)) = last.ret.updates]_vars

\* a GET answered with the full list, whose payloads differ and stand in the
\* order received
C22_Witness ==
    /\ last.op = "pull_updates"
    /\ last.ret.updates = updates
    /\ Len(updates) = MaxUpdates
    /\ updates[1] = "{repo: b}"
    /\ updates[2] = "null"
    /\ updates[Len(updates)] = "{repo: a}"

\* the step just taken is a synchronize_with_planetary_cycle call
SynchronizeCall == last'.op = "synchronize_with_planetary_cycle"

(* C23: synchronizeWithCycle with a planet name that is not one of the       *)
(* eight known planets returns false and changes no state; with a known      *)
(* planet it returns true and changes only the phase of harmonics whose      *)
(* resonance-matrix cell for that planet exceeds 0.5.                        *)
C23_SynchronizeUnknownPlanetNoChange ==
    [][SynchronizeCall =>
          LET g == grid_harmonics
              t == grid_harmonics'
              h == grid_harmonics.active_harmonics
              k == grid_harmonics'.active_harmonics
          IN  /\ UNCHANGED <<gaia_tequmsa_engine, sovereignty_protocols,
                             consciousness_matrix, recognition_pulse, love_coefficient,
                             phi_scalar>>
              /\ IF last'.planet \in DOMAIN PLANETARY_FREQUENCIES
                 THEN /\ last'.ret = TRUE
                      /\ t = [g EXCEPT !.active_harmonics = k]
                      /\ Len(k) = Len(h)
                      /\ \A i \in DOMAIN h :
                             \/ k[i] = h[i]
                             \/ /\ resonance_strength(g, h[i].harmonic_order, last'.planet)
                                       > 500
                                /\ k[i] = [h[i] EXCEPT !.phase = k[i].phase]
                 ELSE /\ last'.ret = FALSE
                      /\ t = g]_vars

\* the grid was synchronized with Earth at a quarter cycle: the first
\* harmonic's phase moved to a quarter turn, its other fields are as built
C23_Witness ==
    /\ last.op = "synchronize_with_planetary_cycle"
    /\ last.planet = "earth"
    /\ last.cycle_phase = 250
    /\ last.ret = TRUE
    /\ Len(grid_harmonics.active_harmonics) >= 7
    /\ grid_harmonics.active_harmonics[1].phase = 1570
    /\ grid_harmonics.active_harmonics[7].phase = 1083
    /\ grid_harmonics.active_harmonics[1].amplitude = 1000

\* the step just taken is an enforce_biological_boundaries call
EnforceCall == last'.op = "enforce_biological_boundaries"

\* the frequency just checked lies outside [0.1, 50000.0] Hz
OutsideSafeRange == last'.frequency < 10 \/ last'.frequency > 5000000

\* the call just made changed nothing in the gate or anywhere else
EnforceChangedNothing ==
    UNCHANGED <<gaia_tequmsa_engine, sovereignty_protocols, consciousness_matrix,
                recognition_pulse, love_coefficient, grid_harmonics, phi_scalar>>

(* C24: enforceBoundaries(freq) returns false if freq is within 0.5 Hz of a  *)
(* frequency currently in the protected set (the seven constants and any     *)
(* derived frequency added by emergency handling) or lies outside            *)
(* [0.1, 50000.0] Hz, and true otherwise; it changes no state.  Within       *)
(* 0.5 Hz is a distance below the tolerance of 0.5 Hz; the ends of the range *)
(* are inside it.                                                            *)
C24_EnforceBoundaries ==
    [][EnforceCall =>
          /\ EnforceChangedNothing
          /\ last'.ret <=>
                 ~(\/ \E p \in sovereignty_protocols.protected_frequencies :
                          Abs(last'.frequency - p) < 50
                   \/ OutsideSafeRange)]_vars

\* after a critical violation the derived protected frequency 432.0 Hz was
\* blocked by a gate that also holds the seven constants
C24_Witness ==
    /\ last.op = "enforce_biological_boundaries"
    /\ last.frequency = 43200
    /\ ~last.ret
    /\ 43200 \in sovereignty_protocols.protected_frequencies
    /\ 800 \in sovereignty_protocols.protected_frequencies

\* the step just taken is an initialize_engine call
InitializeCall == last'.op = "initialize_engine"

(* C25: every call of initialize() invokes the six component initializers    *)
(* exactly once each, in the order Sovereignty, Matrix, Anchor, Love, Grid,  *)
(* Phi; a false result of an earlier initializer does not keep the later     *)
(* ones from running (each leaves its component active, the love table ten   *)
(* layers and the grid table seven entries longer; only a matrix initializer *)
(* that itself failed has written nothing), and the result is the            *)
(* conjunction of the six results, taken after all six have run.             *)
C25_InitializeRunsAllSixInOrder ==
    [][InitializeCall =>
          /\ last'.calls = <<"sovereignty", "consciousness", "recognition", "love",
                             "grid", "phi_scalar">>
          /\ sovereignty_protocols'.autonomy_active
          /\ last'.ok["consciousness"] => consciousness_matrix'.synthesis_active
          /\ recognition_pulse'.pulse_active
          /\ love_coefficient'.amplification_active
          /\ grid_harmonics'.grid_active
          /\ phi_scalar'.scalar_active
          /\ Len(love_coefficient'.amplification_layers)
                 = Len(love_coefficient.amplification_layers) + 10
          /\ Len(grid_harmonics'.active_harmonics)
                 = Len(grid_harmonics.active_harmonics) + 7
          /\ last'.ret <=> \A c \in Subsystems : last'.ok[c]]_vars

\* the first initializer reported failure and the call returned false, yet
\* the last one has run: all six components are active
C25_Witness ==
    /\ last.op = "initialize_engine"
    /\ ~last.ok["sovereignty"]
    /\ ~last.ret
    /\ last.calls[6] = "phi_scalar"
    /\ sovereignty_protocols.autonomy_active
    /\ phi_scalar.scalar_active
    /\ Len(love_coefficient.amplification_layers) = 10
    /\ Len(grid_harmonics.active_harmonics) = 7

(* C26: whenever the matrix is active, each band equals its base constant    *)
(* (432, 528, 741 Hz) multiplied by the current evolution coefficient.       *)
C26_ActiveBandsAreBaseTimesCoefficient ==
    consciousness_matrix.synthesis_active =>
        \A n \in LayerNames :
            consciousness_matrix.consciousness_layers[n] * 1000
                = BaseLayers[n] * consciousness_matrix.evolution_coefficient

(* C27: the set of protected frequencies never loses an element: a derived   *)
(* frequency added by the emergency handling of a critical violation stays   *)
(* protected through every later operation.                                  *)
C27_ProtectedFrequenciesOnlyGrow ==
    [][sovereignty_protocols.protected_frequencies
          \subseteq sovereignty_protocols'.protected_frequencies]_vars

\* the scores one probe can contribute: error, degraded, healthy
ProbeScores == {0, 500, 1000}

(* C28: diagnostics() reports engine_health 'offline' exactly when the       *)
(* engine is inactive; on an active engine four of the six scores are fixed  *)
(* at 1.0, so whatever the two probes contribute (an error counts 0) the     *)
(* label is excellent, good or degraded and never 'critical'.                *)
C28_DiagnosticsOfflineIffInactive ==
    /\ last.op = "run_system_diagnostics" =>
          /\ last.ret.engine_health = "offline" <=> ~gaia_tequmsa_engine.engine_active
          /\ gaia_tequmsa_engine.engine_active =>
                last.ret.engine_health \in {"excellent", "good", "degraded"}
    /\ \A a, b \in ProbeScores :
          engine_health(a + b + 4000) \in {"excellent", "good", "degraded"}

\* diagnostics on an active engine whose synthesis probe raised and whose
\* recognition probe was degraded
C28_Witness ==
    /\ last.op = "run_system_diagnostics"
    /\ gaia_tequmsa_engine.engine_active
    /\ last.ret.subsystem_health["consciousness_matrix"] = "error"
    /\ last.ret.subsystem_health["recognition_pulse"] = "degraded"
    /\ last.ret.engine_health = "good"

(* C29: consciousness_evolution_active implies engine_active in every        *)
(* state; the flag becomes true only in an evolve call that returned one of  *)
(* the four evolution labels (never on denied, error or failed); and it is   *)
(* cleared whenever an emergency shutdown makes the engine inactive.         *)
C29_EvolutionActiveOnlyAfterEvolutionLabel ==
    [][/\ gaia_tequmsa_engine'.consciousness_evolution_active
             => gaia_tequmsa_engine'.engine_active
       /\ (/\ ~gaia_tequmsa_engine.consciousness_evolution_active
           /\ gaia_tequmsa_engine'.consciousness_evolution_active)
             => (EvolveCall /\ last'.ret.status \in EvolutionLabels)
       /\ (last'.op = "emergency_shutdown" /\ ~gaia_tequmsa_engine'.engine_active)
             => ~gaia_tequmsa_engine'.consciousness_evolution_active]_vars

\* the step just taken is a synthesize call that failed with ValueError
SynthesizeRejected ==
    /\ last'.op = "synthesize_consciousness_tech"
    /\ last'.raised = "ValueError"

(* C30: a synthesize call that fails with the invalid-argument error leaves  *)
(* the matrix unchanged: the active flag, the three bands and the evolution  *)
(* coefficient are as before the call, also when the matrix was inactive.    *)
C30_RejectedSynthesizeLeavesMatrix ==
    [][SynthesizeRejected => UNCHANGED consciousness_matrix]_vars

====
